---- MODULE Spec2Model ----
(***************************************************************************)
(* Analog clock rendering and interaction engine of Clock_App              *)
(* (src/clock_app/data/menus/clock.py, class Clock) as a state machine.     *)
(*                                                                         *)
(* Representation of the program's numbers:                                *)
(*   - pixels are integers;                                                *)
(*   - angles are integers in units of 1/480 degree (a half second moves   *)
(*     the 24-hour hour hand by exactly one unit), a full turn is 172800;  *)
(*   - pivot ratios are exact fractions <<num, den>> with den > 0;         *)
(*   - scale overrides are integers in tenths (10 is 1.0);                 *)
(*   - sines and cosines are taken at multiples of 90 degrees only, where  *)
(*     they are exact; every specification that draws keeps the hand       *)
(*     angles on multiples of 90 degrees.                                  *)
(***************************************************************************)
EXTENDS Integers, Sequences, FiniteSets, TLC

VARIABLES
    now,                        \* wall clock: <<hour, minute, second, half>>
    ini,                        \* clock_app.ini: [animation, clock_type, use_12_hour,
                                \* timezone]
    pivots_file,                \* clock_pivots.json on disk
    has_pil,                    \* HAS_PIL
    asset_files,                \* [Elements -> BOOLEAN]: the image file exists
    use_digital,                \* Clock._use_digital
    use_12_hour,                \* Clock._use_12_hour
    analog_animation_enabled,   \* Clock._analog_animation_enabled
    hand_images,                \* Clock._hand_images: [Elements -> BOOLEAN] (loaded or None)
    has_hand_images,            \* hasattr(self, "_hand_images")
    has_canvas,                 \* hasattr(self, "_clock_canvas")
    canvas_size,                \* winfo_width / winfo_height of the canvas
    last_canvas_size,           \* Clock._last_canvas_size (<<0, 0>> is None)
    canvas_items,               \* the canvas display list, one slot per tag
    drag_drop,                  \* Clock._drag_drop
    element_offsets,            \* Clock._element_offsets
    element_scale_override,     \* Clock._element_scale_override (tenths)
    element_rotation_override,  \* Clock._element_rotation_override (angle units)
    hand_pivots,                \* Clock._hand_pivots
    drag_target,                \* Clock._drag_target ("none" is None)
    drag_start,                 \* Clock._drag_start
    hand_angles,                \* the time angles the render loop last computed
    app_phase,                  \* "loading": _load_step_3 is pending; "running":
                                \* ClockApp.clock is set; "stuck": _load_step_3 raised
    raised,                     \* the exception that escaped the last handler
    resize_mode_element,        \* Clock._resize_mode_element ("none" is None)
    photo_refs,                 \* Clock._photo_refs: the image objects held, in order
    item_image,                 \* the image object each canvas item shows (0: none)
    frame,                      \* the redraw in progress: its position, its list of
                                \* references (new_refs / refs_list), refs_owned
    zone_data,                  \* the IANA zones the system has data for
    tz,                         \* Clock._tz ("none" is None)
    has_label,                  \* hasattr(self, "_time_label")
    tick_pending,               \* the number of pending after(1000, _update_time)
    workers,                    \* the worker threads and their positions
    after_queue,                \* the callbacks posted with after(0, ...), in order
    ui,                         \* ClockApp: the menu shown, the progress of the
                                \* loading screen, the dialog open, a <Map> event
                                \* of the Clock to be delivered, the command line
                                \* of the console (the text of its entry, then
                                \* the last entry of its history)
    drag_origin,                \* history: pointer position and offset at pointer-down
    ev,                         \* history: the last event handled
    steps                       \* history: number of events handled

vars == <<now, ini, pivots_file, has_pil, asset_files, use_digital, use_12_hour,
          analog_animation_enabled, hand_images, has_hand_images, has_canvas,
          canvas_size, last_canvas_size, canvas_items, drag_drop, element_offsets,
          element_scale_override, element_rotation_override, hand_pivots,
          drag_target, drag_start, hand_angles, app_phase, raised,
          resize_mode_element, photo_refs, item_image, frame, zone_data, tz,
          has_label, tick_pending, workers, after_queue, ui, drag_origin, ev, steps>>

Elements == {"face", "hour", "minute", "second"}
Hands == {"hour", "minute", "second"}
HandOrder == <<"hour", "minute", "second">>

(***************************************************************************)
(* Arithmetic helpers                                                      *)
(***************************************************************************)
Max2(a, b) == IF a >= b THEN a ELSE b
Min2(a, b) == IF a <= b THEN a ELSE b
Abs(a) == IF a >= 0 THEN a ELSE -a
MaxOf(S) == CHOOSE x \in S : \A y \in S : y <= x
MinOf(S) == CHOOSE x \in S : \A y \in S : x <= y

\* Python int(n / d) for d > 0: truncation toward zero.
Trunc(n, d) == IF n >= 0 THEN n \div d ELSE -((-n) \div d)

\* Python round(n / d) for d > 0: to nearest, ties to the even integer.
PyRound(n, d) ==
    LET q == n \div d
        r == n - q * d
    IN  IF 2 * r < d THEN q
        ELSE IF 2 * r > d THEN q + 1
        ELSE IF q % 2 = 0 THEN q ELSE q + 1

(***************************************************************************)
(* Time-to-angle, as _draw_analog_hands_only and _get_hand_transform_info  *)
(* compute it from datetime.now().  t = <<hour, minute, second, half>>,    *)
(* half in 0..1 is the sub-second part in half seconds.                    *)
(***************************************************************************)
FullTurn == 360 * 480
QuarterTurn == 90 * 480

\* sec = now.second + now.microsecond / 1_000_000, in half seconds
SecOf(t) == 2 * t[3] + t[4]
\* min_val = now.minute + sec / 60, in 1/120 minute
MinValOf(t) == 120 * t[2] + SecOf(t)
\* HrOf without the reduction of the hour modulo 12 or 24
HrOfNoWrap(t, twelve) == t[1] * 7200 + MinValOf(t)

\* hr = (now.hour % 12) + min_val / 60, then hr % 12 (12-hour), or
\* (now.hour % 24) + min_val / 60 (24-hour), in 1/7200 hour
HrOf(t, twelve) ==
    IF twelve
    THEN ((t[1] % 12) * 7200 + MinValOf(t)) % (12 * 7200)
    ELSE (t[1] % 24) * 7200 + MinValOf(t)

\* sec_angle = sec * 6; min_angle = min_val * 6; hr_angle = hr * 30 or hr * 15
TimeAngles(t, twelve) ==
    [second |-> SecOf(t) * 1440,
     minute |-> MinValOf(t) * 24,
     hour   |-> IF twelve THEN HrOf(t, TRUE) * 2 ELSE HrOf(t, FALSE)]

ZeroAngles == [second |-> 0, minute |-> 0, hour |-> 0]

\* The angles of one redraw: the time angles, or 0 with the animation off.
RenderAngles(animation, t, twelve) ==
    IF animation THEN TimeAngles(t, twelve) ELSE ZeroAngles

(***************************************************************************)
(* Hand transform: _get_clock_dimensions, _rotated_hand                    *)
(***************************************************************************)
\* Source images of the hands, <<width, height>> in pixels (the image assets).
HandImageSize ==
    [hour |-> <<20, 200>>, minute |-> <<20, 200>>, second |-> <<20, 200>>]

\* scale_factors = {"hour": 0.4, "minute": 0.5, "second": 0.55}, in hundredths
ScaleFactor == [hour |-> 40, minute |-> 50, second |-> 55]

\* DEFAULT_HAND_PIVOTS
NoPivot == [kind |-> "none", xr |-> <<0, 1>>, yr |-> <<0, 1>>]
StrPivot(s) == [kind |-> s, xr |-> <<0, 1>>, yr |-> <<0, 1>>]
RatioPivot(xr, yr) == [kind |-> "ratio", xr |-> xr, yr |-> yr]
DEFAULT_HAND_PIVOTS ==
    [hour   |-> RatioPivot(<<50, 100>>, <<82, 100>>),
     minute |-> RatioPivot(<<50, 100>>, <<82, 100>>),
     second |-> StrPivot("bottom")]

\* (radius, center_x, center_y) for a canvas of the given winfo size
GetClockDimensions(size) ==
    LET small == size[1] <= 1 \/ size[2] <= 1
        w == IF small THEN 300 ELSE size[1]
        h == IF small THEN 300 ELSE size[2]
    IN  [radius |-> Max2(20, Min2(w, h) \div 2), cx |-> w \div 2, cy |-> h \div 2]

\* (new_w, new_h): the hand image scaled to radius * factor * override
HandScaledSize(name, radius, override) ==
    LET img == HandImageSize[name]
        den == 1000 * Max2(1, Max2(img[1], img[2]))
        num == radius * ScaleFactor[name] * override
    IN  <<Max2(1, Trunc(img[1] * num, den)), Max2(1, Trunc(img[2] * num, den))>>

\* pivot_spec = self._hand_pivots.get(name) or DEFAULT_HAND_PIVOTS.get(name, "center")
EffectivePivot(pivots, name) ==
    IF pivots[name].kind = "none" THEN DEFAULT_HAND_PIVOTS[name] ELSE pivots[name]

\* (px, py): the pivot in the scaled, unrotated image
PivotPoint(spec, size) ==
    IF spec.kind = "bottom" THEN <<size[1] \div 2, size[2] - 1>>
    ELSE IF spec.kind = "ratio"
         THEN <<Trunc(size[1] * spec.xr[1], spec.xr[2]),
                Trunc(size[2] * spec.yr[1], spec.yr[2])>>
         ELSE <<size[1] \div 2, size[2] \div 2>>

\* cos and sin of an angle that is a multiple of 90 degrees
CosQ(angle) ==
    CASE angle % FullTurn = 0 -> 1
      [] angle % FullTurn = QuarterTurn -> 0
      [] angle % FullTurn = 2 * QuarterTurn -> -1
      [] angle % FullTurn = 3 * QuarterTurn -> 0
SinQ(angle) ==
    CASE angle % FullTurn = 0 -> 0
      [] angle % FullTurn = QuarterTurn -> 1
      [] angle % FullTurn = 2 * QuarterTurn -> 0
      [] angle % FullTurn = 3 * QuarterTurn -> -1

Corners(size) == {<<0, 0>>, <<size[1], 0>>, <<size[1], size[2]>>, <<0, size[2]>>}

\* (pivot_out_x, pivot_out_y): px - min(rx), py - min(ry) over the corners
\* rotated about the pivot by angle_deg
PivotOut(size, p, angle) ==
    LET c == CosQ(angle)
        s == SinQ(angle)
        rx == {(k[1] - p[1]) * c - (k[2] - p[2]) * s + p[1] : k \in Corners(size)}
        ry == {(k[1] - p[1]) * s + (k[2] - p[2]) * c + p[2] : k \in Corners(size)}
    IN  <<p[1] - MinOf(rx), p[2] - MinOf(ry)>>

(***************************************************************************)
(* scaled.rotate(-angle_deg, expand=True, center=(px, py)) of Pillow:      *)
(* the affine matrix maps output to input coordinates and keeps the        *)
(* centre fixed; with expand the output size is the extent of the          *)
(* transformed corners and the output is shifted by half the growth in     *)
(* each direction (Pillow: "the expand flag assumes rotation around the    *)
(* center and no translation").                                            *)
(***************************************************************************)
\* (nw, nh): size of the rotated, expanded image
RotatedSize(size, p, angle) ==
    LET a == CosQ(angle)
        b == SinQ(angle)
        xx == {a * (k[1] - p[1]) + b * (k[2] - p[2]) + p[1] : k \in Corners(size)}
        yy == {a * (k[2] - p[2]) - b * (k[1] - p[1]) + p[2] : k \in Corners(size)}
    IN  <<MaxOf(xx) - MinOf(xx), MaxOf(yy) - MinOf(yy)>>

\* Twice the position of the pivot inside the rotated, expanded image:
\* the output point the matrix maps to (px, py) is (px, py) + (growth / 2).
RotatedPivot2(size, p, angle) ==
    LET n == RotatedSize(size, p, angle)
    IN  <<2 * p[1] + n[1] - size[1], 2 * p[2] + n[2] - size[2]>>

\* _rotated_hand(name, angle_deg, radius): the image and (pivot_out_x, pivot_out_y)
RotatedHand(name, angle, radius, overrides, pivots) ==
    LET size == HandScaledSize(name, radius, overrides[name])
        p == PivotPoint(EffectivePivot(pivots, name), size)
        out == PivotOut(size, p, angle)
    IN  [size |-> RotatedSize(size, p, angle),
         pivot2 |-> RotatedPivot2(size, p, angle),
         pivot_out |-> out]

(***************************************************************************)
(* The canvas display list.  Every tag names at most one item: a full      *)
(* redraw deletes all items, a hands-only redraw deletes the "hands"       *)
(* items, before creating new ones.  Stacking order, lowest first: text,   *)
(* face, hour, minute, second.  (x, y) are the item's coordinates: the     *)
(* centre of the face image (anchor CENTER), the top-left corner of a      *)
(* hand image (anchor NW).  pivot2 is twice the position of the pivot      *)
(* inside the item's image.                                                *)
(***************************************************************************)
Tags == Elements \cup {"text"}
NoItem == [on |-> FALSE, x |-> 0, y |-> 0, w |-> 0, h |-> 0, pivot2 |-> <<0, 0>>]
EmptyCanvas == [g \in Tags |-> NoItem]

\* The state that one redraw reads: the Clock's fields, the canvas size, the time.
DrawInput(offsets, scales, rots, pivots, animation, twelve, size, images, pil, t) ==
    [offsets |-> offsets, scales |-> scales, rots |-> rots, pivots |-> pivots,
     animation |-> animation, twelve |-> twelve, size |-> size, images |-> images,
     pil |-> pil, t |-> t]

\* HandItem creating an item for a hand whose image is missing as well
HandItemOfMissing(name, m) ==
    LET dims == GetClockDimensions(m.size)
        angle == RenderAngles(m.animation, m.t, m.twelve)[name] + m.rots[name]
        r == RotatedHand(name, angle, dims.radius, m.scales, m.pivots)
    IN  [on |-> TRUE,
         x |-> dims.cx + m.offsets[name][1] - r.pivot_out[1],
         y |-> dims.cy + m.offsets[name][2] - r.pivot_out[2],
         w |-> r.size[1], h |-> r.size[2], pivot2 |-> r.pivot2]

\* One hand of _draw_analog_hands_only: create_image(px - pivot_out_x,
\* py - pivot_out_y, anchor=NW), or nothing when _rotated_hand returns None.
HandItem(name, m) ==
    LET dims == GetClockDimensions(m.size)
        angle == RenderAngles(m.animation, m.t, m.twelve)[name] + m.rots[name]
        r == RotatedHand(name, angle, dims.radius, m.scales, m.pivots)
    IN  IF ~m.images[name] THEN NoItem
        ELSE [on |-> TRUE,
              x |-> dims.cx + m.offsets[name][1] - r.pivot_out[1],
              y |-> dims.cy + m.offsets[name][2] - r.pivot_out[2],
              w |-> r.size[1], h |-> r.size[2], pivot2 |-> r.pivot2]

\* DrawAnalogHandsOnly deleting every item, not only those tagged "hands"
DrawAnalogHandsOnlyDeletesAll(items, m) ==
    [g \in Tags |-> IF g \in Hands THEN HandItem(g, m) ELSE NoItem]

\* _draw_analog_hands_only: delete("hands"), then the three hands
DrawAnalogHandsOnly(items, m) ==
    [g \in Tags |-> IF g \in Hands THEN HandItem(g, m) ELSE items[g]]

\* The face of a full redraw: create_image(fx, fy, anchor=CENTER)
FaceItem(m) ==
    LET dims == GetClockDimensions(m.size)
        size == Max2(10, Trunc(2 * dims.radius * m.scales["face"], 10))
    IN  [on |-> TRUE, x |-> dims.cx + m.offsets["face"][1],
         y |-> dims.cy + m.offsets["face"][2],
         w |-> size, h |-> size, pivot2 |-> <<size, size>>]

\* The placeholder text drawn without Pillow: create_text(center_x, center_y)
TextItem(m) ==
    LET dims == GetClockDimensions(m.size)
    IN  [on |-> TRUE, x |-> dims.cx, y |-> dims.cy, w |-> 0, h |-> 0,
         pivot2 |-> <<0, 0>>]

\* _draw_analog_clock(force_full): the display list after the call
DrawAnalogClock(items, m, force_full) ==
    IF ~m.pil THEN [EmptyCanvas EXCEPT !["text"] = TextItem(m)]
    ELSE IF ~m.images["face"] THEN items
    ELSE IF ~force_full /\ items["face"].on THEN DrawAnalogHandsOnly(items, m)
    ELSE DrawAnalogHandsOnly([EmptyCanvas EXCEPT !["face"] = FaceItem(m)], m)

\* Whether that call computed the hand angles (reached _draw_analog_hands_only)
DrawsHands(m) == m.pil /\ m.images["face"]

\* The path _draw_analog_clock(force_full) takes: "text" (no Pillow: the
\* placeholder text), "return" (no face image: nothing is drawn), "hands"
\* (the hands-only redraw) or "full" (the full redraw)
DrawBranch(items, m, force_full) ==
    IF ~m.pil THEN "text"
    ELSE IF ~m.images["face"] THEN "return"
    ELSE IF ~force_full /\ items["face"].on THEN "hands"
    ELSE "full"

AnglesAfterDraw(old, m) ==
    IF DrawsHands(m) THEN RenderAngles(m.animation, m.t, m.twelve) ELSE old

(***************************************************************************)
(* The image objects (ImageTk.PhotoImage).  An image object is a positive  *)
(* number; it lives as long as a list holds it: _photo_refs, or the list   *)
(* of the redraw in progress.  A canvas item shows one image object        *)
(* (0: none; the placeholder text shows none).                             *)
(***************************************************************************)
\* The number of image objects told apart
MaxImages == 8

NoItemImages == [g \in Tags |-> 0]
Range(refs) == {refs[i] : i \in 1..Len(refs)}
HandIndex == [hour |-> 1, minute |-> 2, second |-> 3]

\* ImageTk.PhotoImage(...): the n-th new object, none of those in held
NewImage(held, n) ==
    LET free == {i \in 1..MaxImages : i \notin held}
    IN  CHOOSE i \in free : Cardinality({j \in free : j < i}) = n - 1

\* HandsOnlyRefs starting from an empty list
HandsOnlyRefsEmpty(refs) == <<>>

\* refs_list = list(self._photo_refs[:1]) of a hands-only redraw that owns its list
HandsOnlyRefs(refs) == IF refs = <<>> THEN <<>> ELSE <<refs[1]>>

\* The image objects the loop of _draw_analog_hands_only creates: a new one
\* for every hand _rotated_hand returns an image for, none (0) for the others
HandPhotos(held, m) ==
    [k \in Hands |->
        IF m.images[k]
        THEN NewImage(held, 1 + Cardinality({j \in Hands :
                                   m.images[j] /\ HandIndex[j] < HandIndex[k]}))
        ELSE 0]

\* refs_list after the loop: refs_list.append(photo) for every hand drawn
RefsWithHands(base, photos) ==
    LET Drawn(k) == photos[k] # 0
        drawn == SelectSeq(HandOrder, Drawn)
    IN  base \o [i \in 1..Len(drawn) |-> photos[drawn[i]]]

\* _draw_analog_clock(force_full): the image object of every item, and
\* _photo_refs, after the call
DrawAnalogClockRefs(items, imgs, refs, m, force_full) ==
    IF ~m.pil THEN [images |-> NoItemImages, refs |-> refs]
    ELSE IF ~m.images["face"] THEN [images |-> imgs, refs |-> refs]
    ELSE IF ~force_full /\ items["face"].on
    THEN LET photos == HandPhotos(Range(refs) \cup {imgs["face"]}, m)
         IN  [images |-> [g \in Tags |-> IF g \in Hands THEN photos[g] ELSE imgs[g]],
              refs |-> RefsWithHands(HandsOnlyRefs(refs), photos)]
    ELSE LET face == NewImage(Range(refs), 1)
             photos == HandPhotos(Range(refs) \cup {face}, m)
         IN  [images |-> [g \in Tags |->
                             IF g = "face" THEN face
                             ELSE IF g \in Hands THEN photos[g] ELSE 0],
              refs |-> RefsWithHands(<<face>>, photos)]

(***************************************************************************)
(* clock_pivots.json.  kind: "missing", "unreadable" (open raises          *)
(* OSError), "invalid" (json.load raises JSONDecodeError) or "json" (a     *)
(* JSON value).  A JSON value has a type t; an object has a pivot entry    *)
(* per hand, an "offsets" value, and the set extra of its other keys.      *)
(*   pivot entry t: "absent"; "ratio" (two numbers); "badlist" (two        *)
(*     elements, one not a number: float() raises); "short" (a list of     *)
(*     another length); "str" (the string s); "num".                       *)
(*   offsets value t: "absent"; "obj"; "list"; "num".                      *)
(*   offsets entry t: "absent"; "pair" (two integers); "bad" (two          *)
(*     elements, one not a number: int() raises); "other".                 *)
(***************************************************************************)
PEntry(t, xr, yr, str) == [t |-> t, xr |-> xr, yr |-> yr, s |-> str]
AbsentP == PEntry("absent", <<0, 1>>, <<0, 1>>, "")
OEntry(t, v) == [t |-> t, v |-> v]
AbsentO == OEntry("absent", <<0, 0>>)
OffsetsValue(t, v) == [t |-> t, v |-> v]
AbsentOffsets == OffsetsValue("absent", [k \in Hands |-> AbsentO])
JsonValue(t, pivots, offsets) ==
    [t |-> t, pivots |-> pivots, offsets |-> offsets, extra |-> {}]
WithKeys(data, keys) == [data EXCEPT !.extra = keys]
NoData == JsonValue("null", [k \in Hands |-> AbsentP], AbsentOffsets)
File(kind, data) == [kind |-> kind, data |-> data]
MissingFile == File("missing", NoData)

\* str.lower() on the strings the model stores in the file
Lower(str) ==
    CASE str = "Bottom" -> "bottom"
      [] str = "Center" -> "center"
      [] OTHER -> str

NoOffsets == [e \in Elements |-> <<0, 0>>]
NoPivots == [k \in Elements |-> NoPivot]

\* The first key, in the order of the loops, whose entry has type bad; 4 if none
FirstBad(entries, bad) ==
    IF \E i \in 1..3 : entries[HandOrder[i]].t = bad
    THEN MinOf({i \in 1..3 : entries[HandOrder[i]].t = bad})
    ELSE 4

\* The first loop of _load_hand_pivots on one key
LoadedPivot(e) ==
    IF e.t = "ratio" THEN RatioPivot(e.xr, e.yr)
    ELSE IF e.t = "str" /\ Lower(e.s) \in {"center", "bottom"} THEN StrPivot(Lower(e.s))
    ELSE NoPivot

PivotsUpTo(data, n) ==
    [k \in Elements |->
        IF k \in Hands /\ \E i \in 1..3 : HandOrder[i] = k /\ i < n
        THEN LoadedPivot(data.pivots[k]) ELSE NoPivot]

\* The second loop of _load_hand_pivots on one key
OffsetsUpTo(data, n) ==
    [e \in Elements |->
        IF e \in Hands /\ data.offsets.v[e].t = "pair"
           /\ \E i \in 1..3 : HandOrder[i] = e /\ i < n
        THEN data.offsets.v[e].v ELSE <<0, 0>>]

LoadResult(pivots, offsets, exc) == [pivots |-> pivots, offsets |-> offsets, raised |-> exc]

\* _load_hand_pivots on a new Clock: the pivots and offsets it leaves, and the
\* exception it raises to __init__ ("none": returns normally).  Only
\* json.JSONDecodeError and OSError are caught.
LoadHandPivots(file) ==
    IF file.kind # "json" THEN LoadResult(NoPivots, NoOffsets, "none")
    ELSE IF file.data.t \in {"num", "null"}
    THEN LoadResult(NoPivots, NoOffsets, "TypeError")       \* key in data
    ELSE IF file.data.t \in {"list", "str"}
    THEN LoadResult(NoPivots, NoOffsets, "AttributeError")  \* data.get
    ELSE LET np == FirstBad(file.data.pivots, "badlist")
             no == FirstBad(file.data.offsets.v, "bad")
         IN  IF np < 4
             THEN LoadResult(PivotsUpTo(file.data, np), NoOffsets, "ValueError")
             ELSE IF file.data.offsets.t = "num"
             THEN LoadResult(PivotsUpTo(file.data, 4), NoOffsets, "TypeError")
             ELSE IF file.data.offsets.t # "obj"
             THEN LoadResult(PivotsUpTo(file.data, 4), NoOffsets, "none")
             ELSE LoadResult(PivotsUpTo(file.data, 4), OffsetsUpTo(file.data, no),
                             IF no < 4 THEN "ValueError" ELSE "none")

\* Round4 to two decimals
Round2(r) == <<PyRound(r[1] * 100, r[2]), 100>>

\* round(x, 4) of a ratio
Round4(r) == <<PyRound(r[1] * 10000, r[2]), 10000>>

\* SavedData with the scale and rotation overrides written as well
SavedDataWithOverrides(pivots, offsets) ==
    WithKeys(JsonValue("obj", [k \in Hands |-> AbsentP],
                       OffsetsValue("obj", [k \in Hands |-> OEntry("pair", offsets[k])])),
             {"scale", "rotation"})

\* The object _save_hand_pivots builds
SavedData(pivots, offsets) ==
    JsonValue("obj",
        [k \in Hands |->
            IF pivots[k].kind = "ratio"
            THEN PEntry("ratio", Round4(pivots[k].xr), Round4(pivots[k].yr), "")
            ELSE IF pivots[k].kind # "none"
            THEN PEntry("str", <<0, 1>>, <<0, 1>>, pivots[k].kind)
            ELSE AbsentP],
        OffsetsValue("obj", [k \in Hands |-> OEntry("pair", offsets[k])]))

SaveOutcomes == {"ok", "open_fails", "write_fails"}

\* SaveHandPivots writing the offsets before the rescale, as zero
SaveHandPivotsStale(file, pivots, offsets, io) ==
    CASE io = "ok" -> File("json", SavedData(pivots, NoOffsets))
      [] io = "open_fails" -> file
      [] io = "write_fails" -> File("invalid", NoData)

\* _save_hand_pivots: the file after the call.  io is the outcome of the write:
\* "ok"; "open_fails" (open raises OSError, the file is untouched);
\* "write_fails" (open truncated the file, json.dump raises OSError).
\* The OSError is swallowed.
SaveHandPivots(file, pivots, offsets, io) ==
    CASE io = "ok" -> File("json", SavedData(pivots, offsets))
      [] io = "open_fails" -> file
      [] io = "write_fails" -> File("invalid", NoData)

\* SaveRaises without the except clause
SaveRaisesOSError(io) == IF io \in {"open_fails", "write_fails"} THEN "OSError" ELSE "none"

\* The exception _save_hand_pivots lets escape
SaveRaises(io) == "none"

(***************************************************************************)
(* _compute_pivot_from_offset                                              *)
(***************************************************************************)
\* max(0.001, min(0.999, n / d)) for d > 0
ClampRatio(n, d) ==
    IF n * 1000 < d THEN <<1, 1000>>
    ELSE IF n * 1000 > 999 * d THEN <<999, 1000>>
    ELSE <<n, d>>

\* The angle of _get_hand_transform_info: the time angle plus the override
TransformAngle(name, t, twelve, rots) == TimeAngles(t, twelve)[name] + rots[name]

\* The new Ratio pivot for the offset (dx, dy) of a hand whose image is loaded
ComputePivotFromOffset(name, d, m) ==
    LET dims == GetClockDimensions(m.size)
        size == HandScaledSize(name, dims.radius, m.scales[name])
        p == PivotPoint(EffectivePivot(m.pivots, name), size)
        angle == TransformAngle(name, m.t, m.twelve, m.rots)
        off_x == -d[1] * CosQ(angle) - d[2] * SinQ(angle)
        off_y == d[1] * SinQ(angle) - d[2] * CosQ(angle)
    IN  RatioPivot(ClampRatio(p[1] + off_x, size[1]), ClampRatio(p[2] + off_y, size[2]))

(***************************************************************************)
(* Time zones: _resolve_timezone and _load_clock_config.  A zone is its    *)
(* IANA name ("none" is None).  The value of app_timezone reaches          *)
(* _resolve_timezone stripped (cfg.get(sect, key).strip()).                *)
(***************************************************************************)
TZ_ABBREV_TO_IANA ==
    [UTC |-> "UTC", GMT |-> "Etc/GMT", EST |-> "America/New_York",
     CST |-> "America/Chicago", MST |-> "America/Denver",
     PST |-> "America/Los_Angeles"]

\* The zones of a system with the IANA database, and of one without
AllZones ==
    {"UTC", "Etc/GMT", "America/New_York", "America/Chicago", "America/Denver",
     "America/Los_Angeles", "Europe/Paris"}
NoZones == {}

\* str.upper() on the names the model configures
Upper(str) ==
    CASE str = "est" -> "EST"
      [] str = "etc." -> "ETC."
      [] str = "Europe/Paris" -> "EUROPE/PARIS"
      [] str = "Mars/Olympus" -> "MARS/OLYMPUS"
      [] str = "Europe/Paris/" -> "EUROPE/PARIS/"
      [] OTHER -> str

\* The keys zoneinfo rejects with ValueError before any lookup: absolute
\* paths, and paths that are not normalized or leave TZPATH
InvalidKeys == {"Europe/Paris/", "../UTC", "/etc/localtime"}

\* ZoneInfo(key) on a system with the given zones
ZoneInfo(key, zones) ==
    IF key \in InvalidKeys THEN [zone |-> "none", raised |-> "ValueError"]
    ELSE IF key \in zones THEN [zone |-> key, raised |-> "none"]
    ELSE [zone |-> "none", raised |-> "ZoneInfoNotFoundError"]

\* _resolve_timezone(abbrev): the zone, and the exception that escapes
ResolveTimezone(abbrev, zones) ==
    IF abbrev = "" THEN [zone |-> "none", raised |-> "none"]
    ELSE IF Upper(abbrev) \in DOMAIN TZ_ABBREV_TO_IANA
    THEN ZoneInfo(TZ_ABBREV_TO_IANA[Upper(abbrev)], zones)
    ELSE IF ZoneInfo(abbrev, zones).raised = "ZoneInfoNotFoundError"
    THEN [zone |-> "none", raised |-> "none"]
    ELSE ZoneInfo(abbrev, zones)

\* LoadClockConfig with the animation option not recognized: the default stays
LoadClockConfigDefaultAnimation(cfg, zones) ==
    LET z == ResolveTimezone(cfg.timezone, zones)
    IN  [animation |-> FALSE, clock_type |-> cfg.clock_type,
         use_12_hour |-> cfg.use_12_hour, timezone |-> z.zone, raised |-> z.raised]

\* _load_clock_config(ini_path): the values the Clock reads, and the exception
\* that escapes
LoadClockConfig(cfg, zones) ==
    LET z == ResolveTimezone(cfg.timezone, zones)
    IN  [animation |-> cfg.animation, clock_type |-> cfg.clock_type,
         use_12_hour |-> cfg.use_12_hour, timezone |-> z.zone, raised |-> z.raised]

(***************************************************************************)
(* The state machine                                                       *)
(***************************************************************************)
\* The last event handled: the handler, the element it worked on, its boolean
\* argument or outcome, the outcome of its write of the geometry file,
\* whether it (or, for a release, the drag it ends) changed an offset (for the
\* end of the process and the construction that follows: whether a scale or
\* rotation override was set when the process ended; for set_resize_mode:
\* whether another element was in resize mode), its numeric argument, the
\* widget a key event was delivered to, and the position of a pointer event.
Event(op, elem, on, io) ==
    [op |-> op, elem |-> elem, on |-> on, io |-> io, changed |-> FALSE,
     val |-> 0, at |-> "none", pos |-> <<0, 0>>]
Pointer(e, p) == [e EXCEPT !.pos = p]
Changed(e, c) == [e EXCEPT !.changed = c]
Valued(e, v) == [e EXCEPT !.val = v]
Delivered(e, w) == [e EXCEPT !.at = w]

\* Bounds of the model
MaxSteps == 6
MaxOffset == 130

DefaultScales == [e \in Elements |-> 10]
DefaultRotations == [e \in Elements |-> 0]
NoImages == [e \in Elements |-> FALSE]
NoDrag == [e \in Elements |-> FALSE]

\* _use_digital of a configuration
UseDigital(cfg) == ~cfg.animation /\ cfg.clock_type = "Digital"

\* The state a redraw reads in the current state
DrawInputNow ==
    DrawInput(element_offsets, element_scale_override, element_rotation_override,
              hand_pivots, analog_animation_enabled, use_12_hour, canvas_size,
              hand_images, has_pil, now)

\* The state a redraw reads after this step
NextDrawInput ==
    DrawInput(element_offsets', element_scale_override', element_rotation_override',
              hand_pivots', analog_animation_enabled', use_12_hour', canvas_size',
              hand_images', has_pil', now')

\* The threads, the callbacks posted and the widgets of ClockApp
AppUnchanged == UNCHANGED <<workers, after_queue, ui>>
FilesUnchanged == UNCHANGED <<ini, has_pil, asset_files, zone_data>>
EnvUnchanged == UNCHANGED now /\ FilesUnchanged /\ AppUnchanged
DisplayUnchanged == UNCHANGED <<use_digital, use_12_hour, hand_images, has_hand_images,
                                has_canvas, app_phase, tz, has_label>>
ConfigUnchanged == /\ DisplayUnchanged
                   /\ UNCHANGED <<analog_animation_enabled, resize_mode_element,
                                  frame, tick_pending>>

\* No worker thread runs
MaxWorkers == 2
\* kind: "update" (check_for_updates) or "translate" (run); a translation has
\* left of its total texts still to translate
NoWorker == [kind |-> "none", left |-> 0, total |-> 0]
NoWorkers == [w \in 1..MaxWorkers |-> NoWorker]

\* ClockApp.__init__: the loading screen is shown at 0 percent.  menu is the
\* view gridded in the window ("none": no view), current_menu the field
\* ClockApp.current_menu.
StartUi ==
    [menu |-> "loading", progress |-> 0, dialog |-> "none", map_pending |-> FALSE,
     console |-> [kind |-> "none", name |-> "", arg |-> <<>>],
     current_menu |-> "loading",
     panel |-> [visible |-> FALSE, expanded |-> FALSE, gridded |-> FALSE,
                output |-> TRUE, weight |-> 0]]

\* The console panel of the window: visible and expanded are
\* ClockApp._console_visible and _console_expanded, gridded says whether the
\* Console frame is gridded in row 1, output whether its output text is
\* gridded in it, weight is the weight of row 1.
\* toggle_console() closing the panel without clearing _console_expanded
PanelAfterToggleKeepsExpanded(pn) ==
    IF ~pn.visible
    THEN [pn EXCEPT !.visible = TRUE, !.expanded = FALSE, !.gridded = TRUE,
                    !.weight = 0, !.output = FALSE]
    ELSE IF ~pn.expanded
    THEN [pn EXCEPT !.expanded = TRUE, !.output = TRUE, !.weight = 1]
    ELSE [pn EXCEPT !.visible = FALSE, !.weight = 0, !.gridded = FALSE]

\* toggle_console() on an existing console: closed -> collapsed -> expanded
\* -> closed
PanelAfterToggle(pn) ==
    IF ~pn.visible
    THEN [pn EXCEPT !.visible = TRUE, !.expanded = FALSE, !.gridded = TRUE,
                    !.weight = 0, !.output = FALSE]
    ELSE IF ~pn.expanded
    THEN [pn EXCEPT !.expanded = TRUE, !.output = TRUE, !.weight = 1]
    ELSE [pn EXCEPT !.visible = FALSE, !.expanded = FALSE, !.weight = 0,
                    !.gridded = FALSE]

\* Console._on_escape: expanded -> collapsed, else closed
PanelAfterEscape(pn) ==
    IF pn.expanded
    THEN [pn EXCEPT !.expanded = FALSE, !.weight = 0, !.output = FALSE]
    ELSE [pn EXCEPT !.visible = FALSE, !.expanded = FALSE, !.gridded = FALSE]

\* No redraw is in progress
NoFrame == [pc |-> "idle", refs |-> <<>>, owned |-> FALSE]

\* No pointer-down has started a drag
NoOrigin == [pos |-> <<0, 0>>, offset |-> <<0, 0>>, steady |-> FALSE]

\* History of a step of another handler during a drag: whether it left the
\* offset of the element dragged as it was
OriginAfterStep ==
    drag_origin' =
        IF drag_target # "none"
           /\ element_offsets'[drag_target] # element_offsets[drag_target]
        THEN [drag_origin EXCEPT !.steady = FALSE]
        ELSE drag_origin

\* The redraw _draw_analog_clock(force_full) of this step, or none
RedrawsItems(draws, force_full) ==
    /\ canvas_items' = IF draws
                       THEN DrawAnalogClock(canvas_items, NextDrawInput, force_full)
                       ELSE canvas_items
    /\ hand_angles' = IF draws THEN AnglesAfterDraw(hand_angles, NextDrawInput)
                      ELSE hand_angles
    /\ \E r \in {DrawAnalogClockRefs(canvas_items, item_image, photo_refs,
                                      NextDrawInput, force_full)} :
          /\ item_image' = IF draws THEN r.images ELSE item_image
          /\ photo_refs' = IF draws THEN r.refs ELSE photo_refs

\* Clock.__init__ (the fields, the configuration, _load_hand_pivots, _build_ui,
\* _update_time) with the given files, at time t: the new Clock's state and the
\* exception that escapes ("none": the Clock is constructed)
NewClock(cfg, file, pil, assets, zones, t) ==
    LET lc == LoadClockConfig(cfg, zones)
        loaded == lc.raised = "none"
        ld == IF loaded THEN LoadHandPivots(file)
              ELSE LoadResult(NoPivots, NoOffsets, lc.raised)
        dig == loaded /\ UseDigital(cfg)
        built == ld.raised = "none"
        images == IF built /\ ~dig /\ pil THEN assets ELSE NoImages
        m == DrawInput(ld.offsets, DefaultScales, DefaultRotations, ld.pivots,
                       cfg.animation, cfg.use_12_hour, <<1, 1>>, images, pil, t)
        first == DrawAnalogClock(EmptyCanvas, m, TRUE)
        r1 == DrawAnalogClockRefs(EmptyCanvas, NoItemImages, <<>>, m, TRUE)
        r2 == IF cfg.animation
              THEN DrawAnalogClockRefs(first, r1.images, r1.refs, m, FALSE) ELSE r1
    IN  [use_digital |-> dig,
         use_12_hour |-> loaded /\ cfg.use_12_hour,
         analog_animation_enabled |-> loaded /\ cfg.animation,
         tz |-> lc.timezone,
         has_label |-> built /\ dig,
         hand_pivots |-> ld.pivots,
         element_offsets |-> ld.offsets,
         raised |-> ld.raised,
         has_canvas |-> built /\ ~dig,
         has_hand_images |-> built /\ ~dig /\ pil,
         hand_images |-> images,
         canvas_items |-> IF ~built \/ dig THEN EmptyCanvas
                          ELSE IF cfg.animation THEN DrawAnalogClock(first, m, FALSE)
                          ELSE first,
         hand_angles |-> IF ~built \/ dig THEN ZeroAngles
                         ELSE AnglesAfterDraw(ZeroAngles, m),
         item_image |-> IF ~built \/ dig THEN NoItemImages ELSE r2.images,
         photo_refs |-> IF ~built \/ dig THEN <<>> ELSE r2.refs]

\* ClockApp._load_step_3: self.clock = Clock(self)
LoadStep3 ==
    \E c \in {NewClock(ini, pivots_file, has_pil, asset_files, zone_data, now)} :
        /\ app_phase = "loading" /\ steps < MaxSteps
        /\ EnvUnchanged /\ UNCHANGED pivots_file
        /\ tz' = c.tz
        /\ has_label' = c.has_label
        /\ tick_pending' = IF c.raised = "none" THEN 1 ELSE 0
        /\ app_phase' = IF c.raised = "none" THEN "running" ELSE "stuck"
        /\ use_digital' = c.use_digital
        /\ use_12_hour' = c.use_12_hour
        /\ analog_animation_enabled' = c.analog_animation_enabled
        /\ drag_drop' = NoDrag
        /\ element_scale_override' = DefaultScales
        /\ element_rotation_override' = DefaultRotations
        /\ drag_target' = "none"
        /\ drag_start' = <<0, 0>>
        /\ last_canvas_size' = <<0, 0>>
        /\ canvas_size' = <<1, 1>>
        /\ hand_pivots' = c.hand_pivots
        /\ element_offsets' = c.element_offsets
        /\ raised' = c.raised
        /\ has_canvas' = c.has_canvas
        /\ has_hand_images' = c.has_hand_images
        /\ hand_images' = c.hand_images
        /\ canvas_items' = c.canvas_items
        /\ hand_angles' = c.hand_angles
        /\ item_image' = c.item_image
        /\ photo_refs' = c.photo_refs
        /\ resize_mode_element' = "none"
        /\ frame' = NoFrame
        /\ drag_origin' = NoOrigin
        /\ ev' = Changed(Event("load_step_3", "none", FALSE, "none"),
                          ev.op = "restart" /\ ev.changed)
        /\ steps' = steps + 1

\* The process ends and the application is started again: the files stay.
Restart ==
    /\ app_phase # "loading" /\ steps < MaxSteps
    /\ UNCHANGED now /\ FilesUnchanged /\ UNCHANGED pivots_file
    /\ workers' = NoWorkers /\ after_queue' = <<>> /\ ui' = StartUi
    /\ tz' = "none" /\ has_label' = FALSE /\ tick_pending' = 0
    /\ app_phase' = "loading"
    /\ use_digital' = FALSE /\ use_12_hour' = FALSE
    /\ analog_animation_enabled' = FALSE
    /\ drag_drop' = NoDrag
    /\ element_scale_override' = DefaultScales
    /\ element_rotation_override' = DefaultRotations
    /\ drag_target' = "none" /\ drag_start' = <<0, 0>>
    /\ last_canvas_size' = <<0, 0>> /\ canvas_size' = <<1, 1>>
    /\ hand_pivots' = NoPivots /\ element_offsets' = NoOffsets
    /\ has_canvas' = FALSE /\ has_hand_images' = FALSE /\ hand_images' = NoImages
    /\ canvas_items' = EmptyCanvas /\ hand_angles' = ZeroAngles
    /\ raised' = "none"
    /\ item_image' = NoItemImages /\ photo_refs' = <<>>
    /\ resize_mode_element' = "none"
    /\ frame' = NoFrame /\ drag_origin' = NoOrigin
    /\ ev' = Changed(Event("restart", "none", FALSE, "none"),
                      \/ element_scale_override # DefaultScales
                      \/ element_rotation_override # DefaultRotations)
    /\ steps' = steps + 1

Running == app_phase = "running" /\ steps < MaxSteps

\* ScaledOffset with the horizontal scale used in both directions
ScaledOffsetUniform(d, old, new) ==
    IF d = <<0, 0>> THEN d
    ELSE <<PyRound(d[1] * new[1], old[1]), PyRound(d[2] * new[1], old[1])>>

\* An offset scaled by new/old in each direction: int(round(dx * scale_x))
ScaledOffset(d, old, new) ==
    IF d = <<0, 0>> THEN d
    ELSE <<PyRound(d[1] * new[1], old[1]), PyRound(d[2] * new[2], old[2])>>

\* _on_canvas_configure(event): w, h are event.width, event.height
OnCanvasConfigure(w, h, io) ==
    LET new == <<Max2(1, w), Max2(1, h)>>
        first == last_canvas_size = <<0, 0>>
    IN  /\ Running /\ has_canvas
        /\ io = "none" <=> first
        /\ EnvUnchanged /\ ConfigUnchanged
        /\ UNCHANGED <<drag_drop, element_scale_override, element_rotation_override,
                       hand_pivots, drag_target, drag_start>>
        /\ element_offsets' =
              IF first THEN element_offsets
              ELSE [e \in Elements |->
                       ScaledOffset(element_offsets[e], last_canvas_size, new)]
        /\ \A e \in Elements : Abs(element_offsets'[e][1]) <= MaxOffset
                            /\ Abs(element_offsets'[e][2]) <= MaxOffset
        /\ pivots_file' =
              IF first THEN pivots_file
              ELSE SaveHandPivots(pivots_file, hand_pivots, element_offsets', io)
        /\ raised' = IF first THEN "none" ELSE SaveRaises(io)
        /\ last_canvas_size' = IF raised' = "none" THEN new ELSE last_canvas_size
        /\ canvas_size' = <<w, h>>
        /\ RedrawsItems(raised' = "none", TRUE)
        /\ OriginAfterStep
        /\ ev' = Changed(Event("configure", "none", FALSE, io),
                          element_offsets' # element_offsets)
        /\ steps' = steps + 1

\* Whether the canvas item of tag g covers the point (x, y)
Covers(items, g, x, y) ==
    /\ items[g].on
    /\ IF g = "face"
       THEN /\ 2 * Abs(x - items[g].x) <= items[g].w
            /\ 2 * Abs(y - items[g].y) <= items[g].h
       ELSE /\ items[g].x <= x /\ x <= items[g].x + items[g].w
            /\ items[g].y <= y /\ y <= items[g].y + items[g].h

\* Stacking order of the element items, lowest first
StackLevel == [face |-> 1, hour |-> 2, minute |-> 3, second |-> 4]

\* The tag the loops of _on_canvas_click stop at: the topmost item under
\* the pointer that carries an element tag ("none": no such item)
TopElementAt(items, x, y) ==
    LET under == {g \in Elements : Covers(items, g, x, y)}
    IN  IF under = {} THEN "none"
        ELSE CHOOSE g \in under : \A k \in under : StackLevel[k] <= StackLevel[g]

\* _on_canvas_click(event)
OnCanvasClick(x, y) ==
    LET tag == TopElementAt(canvas_items, x, y)
        start == tag # "none" /\ drag_drop[tag]
    IN  /\ Running /\ has_canvas
        /\ EnvUnchanged /\ ConfigUnchanged
        /\ UNCHANGED <<pivots_file, canvas_size, last_canvas_size, canvas_items,
                       drag_drop, element_offsets, element_scale_override,
                       element_rotation_override, hand_pivots, hand_angles,
                       item_image, photo_refs>>
        /\ drag_target' = IF start THEN tag ELSE drag_target
        /\ drag_start' = IF start THEN <<x, y>> ELSE drag_start
        /\ drag_origin' = IF start
                          THEN [pos |-> <<x, y>>, offset |-> element_offsets[tag],
                                steady |-> TRUE]
                          ELSE drag_origin
        /\ raised' = "none"
        /\ ev' = Pointer(Event("click", tag, start, "none"), <<x, y>>)
        /\ steps' = steps + 1

\* DragStartAfter leaving _drag_start at the pointer-down position
DragStartKept(x, y, start) == start

\* _drag_start after a pointer-move of a drag: self._drag_start = (event.x, event.y)
DragStartAfter(x, y, start) == <<x, y>>

\* _on_canvas_drag(event)
OnCanvasDrag(x, y) ==
    LET d == <<x - drag_start[1], y - drag_start[2]>>
        dims == GetClockDimensions(canvas_size)
        active == drag_target # "none"
        o == IF active THEN element_offsets[drag_target] ELSE <<0, 0>>
    IN  /\ Running /\ has_canvas
        /\ active => Abs(o[1] + d[1]) <= MaxOffset /\ Abs(o[2] + d[2]) <= MaxOffset
        /\ EnvUnchanged /\ ConfigUnchanged
        /\ UNCHANGED <<pivots_file, canvas_size, last_canvas_size, drag_drop,
                       element_scale_override, element_rotation_override,
                       hand_pivots, drag_target, hand_angles, item_image,
                       photo_refs, drag_origin>>
        /\ element_offsets' =
              IF active
              THEN [element_offsets EXCEPT ![drag_target] = <<o[1] + d[1], o[2] + d[2]>>]
              ELSE element_offsets
        /\ drag_start' = IF active THEN DragStartAfter(x, y, drag_start) ELSE drag_start
        /\ canvas_items' =
              IF active /\ canvas_items[drag_target].on
              THEN [canvas_items EXCEPT ![drag_target].x = dims.cx + o[1] + d[1],
                                        ![drag_target].y = dims.cy + o[2] + d[2]]
              ELSE canvas_items
        /\ raised' = "none"
        /\ ev' = Pointer(Changed(Event("drag", drag_target, active, "none"),
                                  active /\ (d # <<0, 0>> \/ (ev.op = "drag" /\ ev.changed))),
                          <<x, y>>)
        /\ steps' = steps + 1

\* _on_canvas_release(event)
OnCanvasRelease ==
    /\ Running /\ has_canvas
    /\ EnvUnchanged /\ ConfigUnchanged
    /\ UNCHANGED <<pivots_file, canvas_size, last_canvas_size, canvas_items,
                   drag_drop, element_offsets, element_scale_override,
                   element_rotation_override, hand_pivots, drag_start, hand_angles,
                   item_image, photo_refs, drag_origin>>
    /\ drag_target' = "none"
    /\ raised' = "none"
    /\ ev' = Changed(Event("release", drag_target, FALSE, "none"),
                      drag_target # "none" /\ ev.op = "drag" /\ ev.changed)
    /\ steps' = steps + 1

\* BakesIn with the test of the display mode inverted
BakesInDigital(element, enabled) ==
    /\ ~enabled /\ element \in Hands
    /\ element_offsets[element] # <<0, 0>> /\ use_digital

\* Whether set_drag_drop(element, enabled) bakes the offset into the pivot
BakesIn(element, enabled) ==
    /\ ~enabled /\ element \in Hands
    /\ element_offsets[element] # <<0, 0>> /\ ~use_digital
    /\ has_canvas /\ has_hand_images
    /\ hand_images[element]

\* set_drag_drop(element, enabled) without the reset of the offset baked in
SetDragDropKeepsOffset(element, enabled, io) ==
    LET saves == ~enabled /\ element \in Hands /\ ~use_digital
        m == DrawInput(element_offsets, element_scale_override,
                       element_rotation_override, hand_pivots,
                       analog_animation_enabled, use_12_hour, canvas_size,
                       hand_images, has_pil, now)
    IN  /\ Running
        /\ io = "none" <=> ~saves
        /\ EnvUnchanged /\ ConfigUnchanged
        /\ UNCHANGED <<canvas_size, last_canvas_size, element_scale_override,
                       element_rotation_override, drag_target, drag_start>>
        /\ drag_drop' = [drag_drop EXCEPT ![element] = enabled]
        /\ hand_pivots' =
              IF BakesIn(element, enabled)
              THEN [hand_pivots EXCEPT
                       ![element] = ComputePivotFromOffset(element, element_offsets[element], m)]
              ELSE hand_pivots
        /\ element_offsets' = element_offsets
        /\ pivots_file' =
              IF saves THEN SaveHandPivots(pivots_file, hand_pivots', element_offsets', io)
              ELSE pivots_file
        /\ raised' = IF saves THEN SaveRaises(io) ELSE "none"
        /\ RedrawsItems(saves /\ has_canvas /\ raised' = "none", TRUE)
        /\ OriginAfterStep
        /\ ev' = Changed(Event("set_drag_drop", element, enabled, io),
                          BakesIn(element, enabled))
        /\ steps' = steps + 1

\* set_drag_drop(element, enabled)
SetDragDrop(element, enabled, io) ==
    LET saves == ~enabled /\ element \in Hands /\ ~use_digital
        m == DrawInput(element_offsets, element_scale_override,
                       element_rotation_override, hand_pivots,
                       analog_animation_enabled, use_12_hour, canvas_size,
                       hand_images, has_pil, now)
    IN  /\ Running
        /\ io = "none" <=> ~saves
        /\ EnvUnchanged /\ ConfigUnchanged
        /\ UNCHANGED <<canvas_size, last_canvas_size, element_scale_override,
                       element_rotation_override, drag_target, drag_start>>
        /\ drag_drop' = [drag_drop EXCEPT ![element] = enabled]
        /\ hand_pivots' =
              IF BakesIn(element, enabled)
              THEN [hand_pivots EXCEPT
                       ![element] = ComputePivotFromOffset(element, element_offsets[element], m)]
              ELSE hand_pivots
        /\ element_offsets' =
              IF BakesIn(element, enabled)
              THEN [element_offsets EXCEPT ![element] = <<0, 0>>]
              ELSE element_offsets
        /\ pivots_file' =
              IF saves THEN SaveHandPivots(pivots_file, hand_pivots', element_offsets', io)
              ELSE pivots_file
        /\ raised' = IF saves THEN SaveRaises(io) ELSE "none"
        /\ RedrawsItems(saves /\ has_canvas /\ raised' = "none", TRUE)
        /\ OriginAfterStep
        /\ ev' = Changed(Event("set_drag_drop", element, enabled, io),
                          BakesIn(element, enabled))
        /\ steps' = steps + 1

\* SettersFrame with a setter that ends the drag in progress
SettersFrameEndsDrag ==
    /\ EnvUnchanged /\ ConfigUnchanged
    /\ UNCHANGED <<pivots_file, canvas_size, last_canvas_size, canvas_items,
                   drag_drop, element_offsets, drag_start, hand_angles,
                   item_image, photo_refs, drag_origin>>
    /\ drag_target' = "none"
    /\ raised' = "none"
    /\ steps' = steps + 1

\* What set_element_scale, set_element_rotation and set_hand_pivot leave as
\* it is: they assign one entry of one dictionary
SettersFrame ==
    /\ EnvUnchanged /\ ConfigUnchanged
    /\ UNCHANGED <<pivots_file, canvas_size, last_canvas_size, canvas_items,
                   drag_drop, element_offsets, drag_target, drag_start, hand_angles,
                   item_image, photo_refs, drag_origin>>
    /\ raised' = "none"
    /\ steps' = steps + 1

\* set_element_rotation(element, degrees)
SetElementRotation(element, angle) ==
    /\ Running
    /\ SettersFrame
    /\ UNCHANGED <<element_scale_override, hand_pivots>>
    /\ element_rotation_override' = [element_rotation_override EXCEPT ![element] = angle]
    /\ ev' = Event("set_element_rotation", element, FALSE, "none")

\* set_hand_pivot(element, pivot)
SetHandPivot(element, pivot) ==
    /\ Running
    /\ SettersFrame
    /\ UNCHANGED <<element_scale_override, element_rotation_override>>
    /\ hand_pivots' = [hand_pivots EXCEPT ![element] = pivot]
    /\ ev' = Event("set_hand_pivot", element, FALSE, "none")

\* set_analog_animation(enabled)
SetAnalogAnimation(enabled) ==
    /\ Running
    /\ EnvUnchanged /\ DisplayUnchanged
    /\ UNCHANGED <<resize_mode_element, frame, tick_pending>>
    /\ UNCHANGED <<pivots_file, canvas_size, last_canvas_size, canvas_items,
                   drag_drop, element_offsets, element_scale_override,
                   element_rotation_override, hand_pivots, drag_target, drag_start,
                   hand_angles, item_image, photo_refs, drag_origin>>
    /\ analog_animation_enabled' = enabled
    /\ raised' = "none"
    /\ ev' = Event("set_analog_animation", "none", enabled, "none")
    /\ steps' = steps + 1

\* StoredScale without the lower bound
StoredScaleUnclamped(scale) == scale

\* max(0.1, scale) of set_element_scale, in tenths
StoredScale(scale) == Max2(1, scale)

\* set_element_scale(element, scale)
SetElementScale(element, scale) ==
    /\ Running
    /\ SettersFrame
    /\ UNCHANGED <<element_rotation_override, hand_pivots>>
    /\ element_scale_override' =
          [element_scale_override EXCEPT ![element] = StoredScale(scale)]
    /\ ev' = Valued(Event("set_element_scale", element, FALSE, "none"), scale)

\* ResizeModeAfter keeping the element that is in resize mode already
ResizeModeKept(element, enabled, mode) ==
    IF ~enabled THEN "none" ELSE IF mode = "none" THEN element ELSE mode

\* _resize_mode_element after set_resize_mode(element, enabled)
ResizeModeAfter(element, enabled, mode) == IF enabled THEN element ELSE "none"

\* set_resize_mode(element, enabled)
SetResizeMode(element, enabled) ==
    /\ Running
    /\ EnvUnchanged /\ DisplayUnchanged
    /\ UNCHANGED <<analog_animation_enabled, frame, tick_pending>>
    /\ UNCHANGED <<pivots_file, canvas_size, last_canvas_size, canvas_items,
                   drag_drop, element_offsets, element_scale_override,
                   element_rotation_override, hand_pivots, drag_target, drag_start,
                   hand_angles, item_image, photo_refs, drag_origin>>
    /\ resize_mode_element' = ResizeModeAfter(element, enabled, resize_mode_element)
    /\ raised' = "none"
    /\ ev' = Changed(Event("set_resize_mode", element, enabled, "none"),
                      resize_mode_element \notin {"none", element})
    /\ steps' = steps + 1

\* ResizeScale without the upper bound
ResizeScaleNoMax(current, delta) == Max2(1, current + delta)

\* max(0.1, min(5.0, current + delta)) of adjust_resize_scale, in tenths
ResizeScale(current, delta) == Max2(1, Min2(50, current + delta))

\* The keys bound to _on_resize_key, and the widgets a key event is delivered
\* to: the console (or a descendant of it), or another widget of the window
ResizeKeys == {"equal", "plus", "minus", "underscore"}
KeyWidgets == {"console", "window"}

\* ClockApp._on_resize_key(event), with the call of adjust_resize_scale
OnResizeKey(keysym, widget) ==
    LET delta == IF keysym \in {"equal", "plus"} THEN 1 ELSE -1
        elem == resize_mode_element
        handled == widget # "console" /\ elem # "none"
    IN  /\ Running
        /\ EnvUnchanged /\ ConfigUnchanged
        /\ UNCHANGED <<pivots_file, canvas_size, last_canvas_size, drag_drop,
                       element_offsets, element_rotation_override, hand_pivots,
                       drag_target, drag_start, drag_origin>>
        /\ element_scale_override' =
              IF handled
              THEN [element_scale_override EXCEPT
                       ![elem] = ResizeScale(element_scale_override[elem], delta)]
              ELSE element_scale_override
        /\ RedrawsItems(handled /\ ~use_digital /\ has_canvas, TRUE)
        /\ raised' = "none"
        /\ ev' = Delivered(Valued(Event("resize_key", elem, handled, "none"), delta),
                            widget)
        /\ steps' = steps + 1

\* The largest C int: Pillow takes the size of resize as a pair of C ints
MaxCInt == 2147483647

\* _rotated_hand raises (OverflowError in img.resize, or in int() when the
\* scale is float infinity): the longer side of the scaled hand,
\* radius * factor * override, is certainly beyond the C ints
RotatedHandRaises(name, m) ==
    /\ m.images[name]
    /\ m.scales[name] \div 1000
          > MaxCInt \div (GetClockDimensions(m.size).radius * ScaleFactor[name])

\* face_img.resize((size, size)) raises: size = int(2 * radius * face_scale)
\* is certainly beyond the C ints
FaceResizeRaises(m) ==
    m.scales["face"] \div 10 > MaxCInt \div (2 * GetClockDimensions(m.size).radius)

\* Where the redraw on the given path raises: at the face, at a hand, or
\* nowhere ("none")
RedrawStop(branch, m) ==
    IF branch \notin {"hands", "full"} THEN "none"
    ELSE IF branch = "full" /\ FaceResizeRaises(m) THEN "face"
    ELSE IF \E k \in Hands : RotatedHandRaises(k, m)
    THEN CHOOSE k \in Hands :
            /\ RotatedHandRaises(k, m)
            /\ \A j \in Hands : RotatedHandRaises(j, m) => HandIndex[k] <= HandIndex[j]
    ELSE "none"

\* What the loop over the hands reads when it stops at stop: the hands from
\* stop on are not drawn
DrawInputUpTo(m, stop) ==
    [m EXCEPT !.images = [k \in Elements |->
                             /\ m.images[k]
                             /\ (k \in Hands /\ stop \in Hands)
                                   => HandIndex[k] < HandIndex[stop]]]

\* The redraw of this step when it raises at stop: the items deleted and
\* those created before stop; _photo_refs is not assigned
RedrawStopsAt(stop, force_full) ==
    LET m == DrawInputUpTo(NextDrawInput, stop)
    IN  /\ canvas_items' = IF stop = "face" THEN EmptyCanvas
                           ELSE DrawAnalogClock(canvas_items, m, force_full)
        /\ hand_angles' = IF stop = "face" THEN hand_angles
                          ELSE AnglesAfterDraw(hand_angles, m)
        /\ item_image' = IF stop = "face" THEN NoItemImages
                         ELSE DrawAnalogClockRefs(canvas_items, item_image, photo_refs,
                                                  m, force_full).images
        /\ photo_refs' = photo_refs

\* Whether a tick whose redraw stopped at stop schedules the next tick
\* (line 650 is reached)
TickReschedules(stop) == stop = "none"

\* The body of _update_time() at time t = datetime.now(self._tz): the text of
\* the label or the hands-only redraw, then the next call is scheduled
UpdateTimeRuns(t) ==
    LET draws == ~use_digital /\ analog_animation_enabled
    IN  /\ Running /\ tick_pending > 0
        /\ now' = t
        /\ FilesUnchanged /\ AppUnchanged /\ DisplayUnchanged
        /\ UNCHANGED <<analog_animation_enabled, resize_mode_element, frame>>
        /\ UNCHANGED <<pivots_file, canvas_size, last_canvas_size, drag_drop,
                       element_offsets, element_scale_override,
                       element_rotation_override, hand_pivots, drag_target,
                       drag_start, drag_origin>>
        /\ \E branch \in {IF draws THEN DrawBranch(canvas_items, NextDrawInput, FALSE)
                           ELSE "none"} :
           \E stop \in {RedrawStop(branch, NextDrawInput)} :
              /\ IF stop = "none" THEN RedrawsItems(draws, FALSE)
                 ELSE RedrawStopsAt(stop, FALSE)
              /\ tick_pending' = IF TickReschedules(stop) THEN tick_pending
                                 ELSE tick_pending - 1
              /\ raised' = IF stop = "none" THEN "none" ELSE "OverflowError"
              /\ ev' = Event("update_time", branch, draws, "none")

\* _update_time(), called every second; t is datetime.now() at the call
UpdateTime(t) == UpdateTimeRuns(t) /\ steps' = steps + 1

\* The computation of the angles in _draw_analog_hands_only, on its own
TimeToAngle ==
    /\ Running
    /\ EnvUnchanged /\ ConfigUnchanged
    /\ UNCHANGED <<pivots_file, canvas_size, last_canvas_size, canvas_items,
                   drag_drop, element_offsets, element_scale_override,
                   element_rotation_override, hand_pivots, drag_target, drag_start,
                   item_image, photo_refs, drag_origin, steps>>
    /\ hand_angles' = RenderAngles(analog_animation_enabled, now, use_12_hour)
    /\ raised' = "none"
    /\ ev' = Event("time_to_angle", "none", FALSE, "none")

\* refresh_translations(): a full redraw of the analog clock
RefreshTranslations ==
    /\ Running
    /\ EnvUnchanged /\ ConfigUnchanged
    /\ UNCHANGED <<pivots_file, canvas_size, last_canvas_size, drag_drop,
                   element_offsets, element_scale_override,
                   element_rotation_override, hand_pivots, drag_target, drag_start,
                   drag_origin>>
    /\ RedrawsItems(~use_digital /\ has_canvas, TRUE)
    /\ raised' = "none"
    /\ ev' = Event("refresh_translations", "none", FALSE, "none")
    /\ steps' = steps + 1

(***************************************************************************)
(* Initial states                                                          *)
(***************************************************************************)
Config(animation, clock_type, twelve) ==
    [animation |-> animation, clock_type |-> clock_type, use_12_hour |-> twelve,
     timezone |-> "UTC"]
\* The configuration with app_timezone = name
WithZone(cfg, name) == [cfg EXCEPT !.timezone = name]
AllAssets == [e \in Elements |-> TRUE]

\* The application has started and _load_step_3 is pending.
AppStartedWith(cfg, file, pil, assets, zones, t) ==
    /\ now = t /\ ini = cfg /\ pivots_file = file /\ has_pil = pil
    /\ asset_files = assets
    /\ zone_data = zones
    /\ workers = NoWorkers /\ after_queue = <<>> /\ ui = StartUi
    /\ tz = "none" /\ has_label = FALSE /\ tick_pending = 0
    /\ app_phase = "loading"
    /\ use_digital = FALSE /\ use_12_hour = FALSE
    /\ analog_animation_enabled = FALSE
    /\ drag_drop = NoDrag
    /\ element_scale_override = DefaultScales
    /\ element_rotation_override = DefaultRotations
    /\ drag_target = "none" /\ drag_start = <<0, 0>>
    /\ last_canvas_size = <<0, 0>> /\ canvas_size = <<1, 1>>
    /\ hand_pivots = NoPivots /\ element_offsets = NoOffsets
    /\ has_canvas = FALSE /\ has_hand_images = FALSE /\ hand_images = NoImages
    /\ canvas_items = EmptyCanvas /\ hand_angles = ZeroAngles
    /\ raised = "none"
    /\ item_image = NoItemImages /\ photo_refs = <<>>
    /\ resize_mode_element = "none"
    /\ frame = NoFrame /\ drag_origin = NoOrigin
    /\ ev = Event("start", "none", FALSE, "none")
    /\ steps = 0

\* The same on a system with the IANA database
AppStarted(cfg, file, pil, assets, t) ==
    AppStartedWith(cfg, file, pil, assets, AllZones, t)

\* The display list after the user dragged the elements by drags: every item
\* dragged has the coordinates _on_canvas_drag gave it, center + offset
DraggedItems(items, offsets, drags, size) ==
    LET dims == GetClockDimensions(size)
    IN  [g \in Tags |->
            IF g \in Elements /\ drags[g] # <<0, 0>> /\ items[g].on
            THEN [items[g] EXCEPT !.x = dims.cx + offsets[g][1],
                                  !.y = dims.cy + offsets[g][2]]
            ELSE items[g]]

\* A Clock at work: it was constructed at time t0 from the given geometry file
\* (every asset there) and laid out on a 300x300 canvas; since then the
\* console set the pivots of the hands in pivots and the rotations, the user
\* switched drag-drop on for the elements in drags and dragged them by drags,
\* and the time is t.
ClockRunningOn(cfg, file, t0, pivots, rots, drags, t, zones, menu) ==
    \E c \in {NewClock(cfg, file, TRUE, AllAssets, zones, t0)} :
    LET size == IF c.has_canvas THEN <<300, 300>> ELSE <<1, 1>>
        offsets == [e \in Elements |->
                       <<c.element_offsets[e][1] + drags[e][1],
                         c.element_offsets[e][2] + drags[e][2]>>]
    IN  /\ now = t /\ ini = cfg /\ pivots_file = file /\ has_pil = TRUE
        /\ asset_files = AllAssets
        /\ zone_data = zones
        /\ workers = NoWorkers /\ after_queue = <<>>
        /\ ui = [StartUi EXCEPT !.menu = menu, !.current_menu = menu]
        /\ tz = c.tz /\ has_label = c.has_label /\ tick_pending = 1
        /\ app_phase = "running"
        /\ use_digital = c.use_digital /\ use_12_hour = c.use_12_hour
        /\ analog_animation_enabled = c.analog_animation_enabled
        /\ drag_drop = [e \in Elements |-> drags[e] # <<0, 0>>]
        /\ element_scale_override = DefaultScales
        /\ element_rotation_override = rots
        /\ drag_target = "none" /\ drag_start = <<0, 0>>
        /\ last_canvas_size = (IF c.has_canvas THEN size ELSE <<0, 0>>)
        /\ canvas_size = size
        /\ hand_pivots = [e \in Elements |->
                             IF pivots[e] = NoPivot THEN c.hand_pivots[e] ELSE pivots[e]]
        /\ element_offsets = offsets
        /\ has_canvas = c.has_canvas /\ has_hand_images = c.has_hand_images
        /\ hand_images = c.hand_images
        /\ canvas_items = DraggedItems(c.canvas_items, offsets, drags, size)
        /\ hand_angles = c.hand_angles
        /\ raised = "none"
        /\ item_image = c.item_image /\ photo_refs = c.photo_refs
        /\ resize_mode_element = "none"
        /\ frame = NoFrame /\ drag_origin = NoOrigin
        /\ ev = Event("start", "none", FALSE, "none")
        /\ steps = 0

\* The same on a system with the IANA database, the clock view shown
ClockRunning(cfg, file, t0, pivots, rots, drags, t) ==
    ClockRunningOn(cfg, file, t0, pivots, rots, drags, t, AllZones, "clock")

Midnight == <<0, 0, 0, 0>>

(***************************************************************************)
(* SpecAngle: the time-to-angle computation on every time of day           *)
(***************************************************************************)
\* The times of day tried: every hour, and the minutes and seconds at the
\* ends, the quarters and the middle of their range, with and without a half second
SampleMinutes == {0, 1, 15, 29, 30, 45, 59}
SampleSeconds == {0, 1, 15, 30, 45, 59}
AllTimes == (0..23) \X SampleMinutes \X SampleSeconds \X (0..1)

InitAngle ==
    \E twelve \in BOOLEAN, animation \in BOOLEAN, t \in AllTimes :
        ClockRunning(Config(animation, "Analog", twelve), MissingFile, Midnight,
                     NoPivots, DefaultRotations, NoOffsets, t)

NextAngle == TimeToAngle

SpecAngle == InitAngle /\ [][NextAngle]_vars

PivotChoices ==
    {NoPivot, StrPivot("center"), StrPivot("bottom"), RatioPivot(<<1, 4>>, <<3, 4>>)}
RotationChoices == {0, QuarterTurn, 2 * QuarterTurn, 3 * QuarterTurn}
QuarterTimes == {Midnight, <<6, 0, 0, 0>>}

MaxHandSteps == 2

\* Every hand has the pivot pv, and its own rotation
InitHand ==
    \E pv \in PivotChoices, rt \in [Hands -> RotationChoices], t \in QuarterTimes :
        ClockRunning(Config(TRUE, "Analog", FALSE), MissingFile, Midnight,
                     [e \in Elements |-> IF e \in Hands THEN pv ELSE NoPivot],
                     [e \in Elements |-> IF e \in Hands THEN rt[e] ELSE 0],
                     NoOffsets, t)

NextHand == steps < MaxHandSteps /\ RefreshTranslations

SpecHand == InitHand /\ [][NextHand]_vars

\* The canvas point, doubled, at which the pivot of the drawn hand k lies
PivotOnCanvas2(k) ==
    <<2 * canvas_items[k].x + canvas_items[k].pivot2[1],
      2 * canvas_items[k].y + canvas_items[k].pivot2[2]>>

\* The canvas point, doubled, of center + offset for element k
AnchorOnCanvas2(k) ==
    LET dims == GetClockDimensions(canvas_size)
    IN  <<2 * (dims.cx + element_offsets[k][1]), 2 * (dims.cy + element_offsets[k][2])>>

\* C1: after a redraw the pivot of every hand drawn lies at center + offset on
\* the canvas, within 1 pixel.
C1_PivotAtAnchor ==
    ev.op = "refresh_translations" =>
        \A k \in Hands : canvas_items[k].on =>
            /\ Abs(PivotOnCanvas2(k)[1] - AnchorOnCanvas2(k)[1]) <= 2
            /\ Abs(PivotOnCanvas2(k)[2] - AnchorOnCanvas2(k)[2]) <= 2

(***************************************************************************)
(* SpecDrag: construction, first layout, dragging with the pointer, and    *)
(* turning drag-drop on and off                                            *)
(***************************************************************************)
\* A record written by an earlier run: the hour hand was dragged by (40, 20).
EarlierFile ==
    File("json", SavedData(NoPivots, [NoOffsets EXCEPT !["hour"] = <<40, 20>>]))
InitialFiles == {MissingFile, EarlierFile}
InitialConfigs ==
    {Config(TRUE, "Analog", FALSE), Config(FALSE, "Analog", FALSE),
     Config(FALSE, "Digital", FALSE)}
InitialAssets == {AllAssets, [AllAssets EXCEPT !["hour"] = FALSE]}

\* The pointer positions tried: the clock centre of a 300x300 canvas, under the
\* hands, and a point of the face right and below of it
Points == {<<150, 150>>, <<190, 170>>}

\* The elements whose drag-drop switch the console sets
DragElements == {"face", "hour", "second"}

InitDrag ==
    \E cfg \in InitialConfigs, file \in InitialFiles, assets \in InitialAssets,
       t \in QuarterTimes :
        AppStarted(cfg, file, TRUE, assets, t)

\* Pointer events reach the canvas once it is mapped, after its first <Configure>.
Mapped == last_canvas_size # <<0, 0>>

NextDrag ==
    \/ LoadStep3
    \/ ~Mapped /\ OnCanvasConfigure(300, 300, "none")
    \/ \E p \in Points : Mapped /\ OnCanvasClick(p[1], p[2])
    \/ \E p \in Points : Mapped /\ OnCanvasDrag(p[1], p[2])
    \/ Mapped /\ OnCanvasRelease
    \/ \E e \in DragElements, b \in BOOLEAN, io \in {"ok", "none"} :
          SetDragDrop(e, b, io)

SpecDrag == InitDrag /\ [][NextDrag]_vars

\* C3 as stated: whenever set_drag_drop(e, False) is called for a hand e whose
\* offset is nonzero, afterwards e's offset is (0, 0) and e's pivot is a Ratio pair.
C3_OffsetBakedIn ==
    [][\A e \in Hands :
          (ev'.op = "set_drag_drop" /\ ev'.elem = e /\ ~ev'.on
              /\ element_offsets[e] # <<0, 0>>)
          => (element_offsets'[e] = <<0, 0>> /\ hand_pivots'[e].kind = "ratio")]_vars

\* C3 amended: whenever set_drag_drop(e, False) is called for a hand e whose
\* offset is nonzero, in analog mode with the canvas built and the image of e
\* loaded, afterwards e's offset is (0, 0) and e's pivot is a Ratio pair.
C3_OffsetBakedInAnalog ==
    [][\A e \in Hands :
          (ev'.op = "set_drag_drop" /\ ev'.elem = e /\ ~ev'.on
              /\ element_offsets[e] # <<0, 0>>
              /\ ~use_digital /\ has_canvas /\ has_hand_images /\ hand_images[e])
          => (element_offsets'[e] = <<0, 0>> /\ hand_pivots'[e].kind = "ratio")]_vars

\* C3 witness: drag-drop was turned off for the dragged second hand in analog
\* mode; its offset is (0, 0) again, its pivot a Ratio pair.
C3_Witness ==
    /\ ev.op = "set_drag_drop" /\ ev.elem = "second" /\ ~ev.on /\ ev.changed
    /\ ~use_digital /\ hand_images["second"]
    /\ element_offsets["second"] = <<0, 0>>
    /\ hand_pivots["second"].kind = "ratio"

\* C4: when set_drag_drop(hand, False) bakes a nonzero offset into the pivot,
\* the redraw with the new pivot and zero offset puts the hand's image where a
\* redraw with the old pivot and the offset put it, at the same time of day,
\* within 1 pixel.
C4_BakeInKeepsPosition ==
    [][\A e \in Hands :
          (ev'.op = "set_drag_drop" /\ ev'.elem = e /\ ev'.changed
              /\ canvas_items'[e].on)
          => /\ Abs(canvas_items'[e].x - HandItem(e, DrawInputNow).x) <= 1
             /\ Abs(canvas_items'[e].y - HandItem(e, DrawInputNow).y) <= 1]_vars

\* C5: after a pointer-up that ends a drag which changed an element's offset,
\* the geometry file is a record whose offsets for hour, minute and second
\* are the offsets in memory.
C5_ReleasePersists ==
    (ev.op = "release" /\ ev.changed) =>
        /\ pivots_file.kind = "json" /\ pivots_file.data.t = "obj"
        /\ pivots_file.data.offsets.t = "obj"
        /\ \A k \in Hands :
              pivots_file.data.offsets.v[k] = OEntry("pair", element_offsets[k])

\* C25: when the image of a hand is missing only that hand's layer is
\* skipped.  In every state of a Clock drawn with Pillow and the face image,
\* the face and the hands whose images are loaded are on the canvas, the
\* missing hand is not, no image reference is held for it (every reference
\* held is the image of an item on the canvas) and nothing was raised; and
\* set_drag_drop(k, False) for a missing hand k raises nothing and leaves its
\* pivot and its offset as they are.
C25_MissingHandSkipped ==
    /\ [](\A k \in Hands :
            (app_phase = "running" /\ has_canvas /\ has_pil /\ hand_images["face"]
                /\ ~hand_images[k]) =>
               /\ canvas_items["face"].on
               /\ \A j \in Hands : canvas_items[j].on = hand_images[j]
               /\ item_image[k] = 0
               /\ \A i \in 1..Len(photo_refs) :
                     \E g \in Elements :
                        canvas_items[g].on /\ item_image[g] = photo_refs[i]
               /\ raised = "none")
    /\ [][\A k \in Hands :
            (ev'.op = "set_drag_drop" /\ ev'.elem = k /\ ~ev'.on /\ steps' # steps
                /\ ~use_digital /\ has_pil /\ ~hand_images[k]) =>
               /\ raised' = "none"
               /\ hand_pivots' = hand_pivots
               /\ element_offsets' = element_offsets]_vars

\* Drag-drop was switched off for the hour hand, whose image is missing and
\* whose offset is not zero, and the canvas was drawn again without it
C25_Witness ==
    /\ ev.op = "set_drag_drop" /\ ev.elem = "hour" /\ ~ev.on
    /\ has_canvas /\ has_pil /\ hand_images["face"] /\ ~hand_images["hour"]
    /\ element_offsets["hour"] # <<0, 0>>
    /\ canvas_items["minute"].on /\ ~canvas_items["hour"].on

(***************************************************************************)
(* SpecPointer: SpecDrag with resizes of the mapped canvas                 *)
(***************************************************************************)
\* The sizes the canvas is resized to
CanvasSizes == {<<300, 300>>, <<600, 450>>}

NextPointer ==
    \/ NextDrag
    \/ \E size \in CanvasSizes :
          Mapped /\ OnCanvasConfigure(size[1], size[2], "ok")

SpecPointer == InitDrag /\ [][NextPointer]_vars

\* C15 as stated: during a drag, after every pointer-move the dragged
\* element's offset is its offset at pointer-down plus (pointer position -
\* pointer-down position), and the move changes no other element's offset; a
\* pointer-up clears the drag target; a pointer-move with no active drag
\* changes no offset.
C15_DragFollowsPointer ==
    [][/\ (ev'.op = "drag" /\ ev'.on) =>
             /\ element_offsets'[drag_target] =
                   <<drag_origin.offset[1] + ev'.pos[1] - drag_origin.pos[1],
                     drag_origin.offset[2] + ev'.pos[2] - drag_origin.pos[2]>>
             /\ \A e \in Elements \ {drag_target} :
                   element_offsets'[e] = element_offsets[e]
       /\ (ev'.op = "drag" /\ ~ev'.on) => element_offsets' = element_offsets
       /\ ev'.op = "release" => drag_target' = "none"]_vars

\* C15 amended: the same, for the pointer-moves of a drag during which no
\* other event (a resize, a bake-in by set_drag_drop) has changed the dragged
\* element's offset since pointer-down; every pointer-move of a drag adds
\* (pointer position - previous pointer position of the drag) to the dragged
\* element's offset and changes no other element's offset.
C15_UndisturbedDragFollowsPointer ==
    [][/\ (ev'.op = "drag" /\ ev'.on) =>
             /\ drag_origin.steady =>
                   element_offsets'[drag_target] =
                      <<drag_origin.offset[1] + ev'.pos[1] - drag_origin.pos[1],
                        drag_origin.offset[2] + ev'.pos[2] - drag_origin.pos[2]>>
             /\ element_offsets'[drag_target] =
                   <<element_offsets[drag_target][1] + ev'.pos[1] - drag_start[1],
                     element_offsets[drag_target][2] + ev'.pos[2] - drag_start[2]>>
             /\ \A e \in Elements \ {drag_target} :
                   element_offsets'[e] = element_offsets[e]
       /\ (ev'.op = "drag" /\ ~ev'.on) => element_offsets' = element_offsets
       /\ ev'.op = "release" => drag_target' = "none"]_vars

\* C15 witness: the second hand, pressed at (150, 150) with offset (0, 0), was
\* moved to (190, 170): its offset is (40, 20).
C15_Witness ==
    /\ ev.op = "drag" /\ ev.on /\ ev.elem = "second" /\ ev.pos = <<190, 170>>
    /\ drag_origin = [pos |-> <<150, 150>>, offset |-> <<0, 0>>, steady |-> TRUE]
    /\ element_offsets["second"] = <<40, 20>>

\* C16: a pointer-down at a point covered by at least one element whose
\* drag-enabled flag is set starts a drag of a drag-enabled element under the
\* pointer, also when a drag-disabled element lies on top of it; a pointer-down
\* over no drag-enabled element leaves the drag target as it was (unset).
C16_ClickStartsDrag ==
    [][ev'.op = "click" =>
          LET enabled == {e \in Elements :
                             drag_drop[e] /\ Covers(canvas_items, e, ev'.pos[1], ev'.pos[2])}
          IN  IF enabled # {}
              THEN drag_target' \in enabled /\ drag_start' = ev'.pos
              ELSE drag_target' = drag_target]_vars

\* C17: the direct move of a pointer-move is equivalent to a redraw: the
\* position the dragged item (the face or a hand) is moved to is the position
\* a full redraw gives that item for the same offset.
C17_MoveEqualsRedraw ==
    [][(ev'.op = "drag" /\ ev'.on /\ canvas_items'[drag_target].on) =>
          LET drawn == DrawAnalogClock(canvas_items', NextDrawInput, TRUE)[drag_target]
          IN  /\ canvas_items'[drag_target].x = drawn.x
              /\ canvas_items'[drag_target].y = drawn.y]_vars

\* C31: a pointer-move never changes the offset of an element whose
\* drag-enabled flag is off, under every interleaving of pointer events with
\* console commands; in particular not after drag-drop was turned off for the
\* element being dragged, between pointer-down and pointer-up.
C31_DisabledNotDragged ==
    [][ev'.op = "drag" =>
          \A e \in Elements :
              ~drag_drop[e] => element_offsets'[e] = element_offsets[e]]_vars

\* C32: the hand angle the bake-in uses (_get_hand_transform_info) is the
\* angle at which the render loop draws that hand in the same state at the
\* same instant: the time angle plus the rotation override with the animation
\* enabled, the rotation override alone with the animation disabled.
C32_BakeInAngleIsRenderAngle ==
    [][(ev'.op = "set_drag_drop" /\ ev'.changed) =>
          TransformAngle(ev'.elem, now, use_12_hour, element_rotation_override) =
             RenderAngles(analog_animation_enabled, now, use_12_hour)[ev'.elem]
                + element_rotation_override[ev'.elem]]_vars

(***************************************************************************)
(* SpecStore: resizes, drags and drag-drop switches of a running Clock     *)
(* whose pivots the console may have set, with writes of the geometry file *)
(* that succeed or fail, and restarts                                      *)
(***************************************************************************)
StorePivots == {NoPivot, StrPivot("center"), RatioPivot(<<1, 3>>, <<2, 3>>)}
\* The drags before the first step: none, or the face by (-40, -20) and the
\* second hand by (7, -13)
StoreDrags ==
    {NoOffsets,
     [NoOffsets EXCEPT !["face"] = <<-40, -20>>, !["second"] = <<7, -13>>]}
StoreElements == {"hour", "minute", "second"}
MaxStoreSteps == 3

InitStore ==
    \E file \in InitialFiles, pv \in StorePivots, drags \in StoreDrags :
        ClockRunning(Config(TRUE, "Analog", FALSE), file, Midnight,
                     [NoPivots EXCEPT !["minute"] = pv], DefaultRotations, drags,
                     Midnight)

NextStore ==
    \/ steps < MaxStoreSteps /\ Restart
    \/ steps < MaxStoreSteps /\ LoadStep3
    \/ \E size \in CanvasSizes, io \in SaveOutcomes \cup {"none"} :
          steps < MaxStoreSteps /\ OnCanvasConfigure(size[1], size[2], io)
    \/ \E e \in StoreElements, io \in SaveOutcomes :
          steps < MaxStoreSteps /\ SetDragDrop(e, FALSE, io)

SpecStore == InitStore /\ [][NextStore]_vars

\* k is num / den rounded to the nearest integer, a tie to the even one
IsRounded(k, num, den) ==
    \/ 2 * Abs(k * den - num) < den
    \/ 2 * Abs(k * den - num) = den /\ k % 2 = 0

\* C6: on a resize from (old_w, old_h) to (new_w, new_h) every element with a
\* nonzero offset (dx, dy) gets (round(dx*new_w/old_w), round(dy*new_h/old_h)),
\* every element with offset (0, 0) keeps it; (40, 20) at 300x300 resized to
\* 600x450 becomes (80, 30).
C6_OffsetsRescaled ==
    [][(ev'.op = "configure" /\ last_canvas_size # <<0, 0>>) =>
          \A e \in Elements :
              LET d == element_offsets[e]
                  n == element_offsets'[e]
                  old == last_canvas_size
                  new == canvas_size'
              IN  /\ d = <<0, 0>> => n = <<0, 0>>
                  /\ d # <<0, 0>> => /\ IsRounded(n[1], d[1] * new[1], old[1])
                                     /\ IsRounded(n[2], d[2] * new[2], old[2])
                  /\ (d = <<40, 20>> /\ old = <<300, 300>> /\ new = <<600, 450>>)
                        => n = <<80, 30>>]_vars

\* C6 witness: a resize to 600x450 changed offsets; the hour hand is at (80, 30).
C6_Witness ==
    /\ ev.op = "configure" /\ ev.changed
    /\ last_canvas_size = <<600, 450>>
    /\ element_offsets["hour"] = <<80, 30>>

Close4(r, q) == 20000 * Abs(r[1] * q[2] - q[1] * r[2]) <= r[2] * q[2]

SamePivot(a, b) ==
    /\ a.kind = b.kind
    /\ a.kind = "ratio" => Close4(a.xr, b.xr) /\ Close4(a.yr, b.yr)

\* C8: after a write of the geometry file that succeeded, a new Clock
\* constructed from the file has the offsets of hour, minute and second that
\* are in memory, and the pivots that are in memory: the same string, or a
\* Ratio pair equal to 4 decimal places.
C8_GeometrySurvivesRestart ==
    ev.io = "ok" =>
        LET c == NewClock(ini, pivots_file, has_pil, asset_files, zone_data, now)
        IN  /\ c.raised = "none"
            /\ \A k \in Hands :
                  /\ c.element_offsets[k] = element_offsets[k]
                  /\ SamePivot(c.hand_pivots[k], hand_pivots[k])

\* C8 witness: with the minute pivot (1/3, 2/3) and the hour offset (40, 20) in
\* memory, a write succeeded; a new Clock loads (0.3333, 0.6667) and (40, 20).
C8_Witness ==
    /\ ev.io = "ok"
    /\ hand_pivots["minute"] = RatioPivot(<<1, 3>>, <<2, 3>>)
    /\ element_offsets["hour"] = <<40, 20>>
    /\ LoadHandPivots(pivots_file).pivots["minute"] =
          RatioPivot(<<3333, 10000>>, <<6667, 10000>>)
    /\ LoadHandPivots(pivots_file).offsets["hour"] = <<40, 20>>

\* C10: when the write of the geometry file fails, the resize or the drag-drop
\* switch raises nothing, the offsets and pivots in memory are those of a
\* successful write, and the redraw that follows draws from them.
C10_WriteFailureSwallowed ==
    [][ev'.io \in {"open_fails", "write_fails"} =>
          /\ raised' = "none"
          /\ ev'.op = "configure" =>
                /\ hand_pivots' = hand_pivots
                /\ element_offsets' =
                      [e \in Elements |->
                          ScaledOffset(element_offsets[e], last_canvas_size, canvas_size')]
          /\ ev'.op = "set_drag_drop" =>
                LET e == ev'.elem
                    bakes == /\ element_offsets[e] # <<0, 0>>
                             /\ has_canvas /\ has_hand_images /\ hand_images[e]
                IN  /\ bakes => /\ element_offsets' = [element_offsets EXCEPT ![e] = <<0, 0>>]
                                /\ hand_pivots' = [hand_pivots EXCEPT ![e] =
                                      ComputePivotFromOffset(e, element_offsets[e], DrawInputNow)]
                    /\ ~bakes => element_offsets' = element_offsets /\ hand_pivots' = hand_pivots
          /\ has_canvas => canvas_items' = DrawAnalogClock(canvas_items, NextDrawInput, TRUE)]_vars

\* C10 witness: the write of a resize to 600x450 failed after truncating the
\* file; nothing was raised, the hour hand's offset is the rescaled (80, 30)
\* and the hand is drawn.
C10_Witness ==
    /\ ev.op = "configure" /\ ev.io = "write_fails" /\ ev.changed
    /\ raised = "none"
    /\ pivots_file.kind = "invalid"
    /\ element_offsets["hour"] = <<80, 30>>
    /\ canvas_items["hour"] = HandItem("hour", DrawInputNow)

PivotEntries ==
    {AbsentP,
     PEntry("ratio", <<1, 2>>, <<3, 4>>, ""),
     PEntry("badlist", <<0, 1>>, <<0, 1>>, ""),
     PEntry("str", <<0, 1>>, <<0, 1>>, "Bottom"),
     PEntry("num", <<0, 1>>, <<0, 1>>, "")}
OffsetEntries == {AbsentO, OEntry("pair", <<40, 20>>), OEntry("bad", <<0, 0>>)}
OffsetsValues ==
    {OffsetsValue(t, [k \in Hands |-> AbsentO]) : t \in {"absent", "list", "num"}}
        \cup {OffsetsValue("obj", v) : v \in [Hands -> OffsetEntries]}
LoadFiles ==
    {File(kind, NoData) : kind \in {"missing", "unreadable", "invalid"}}
        \cup {File("json", JsonValue(t, [k \in Hands |-> AbsentP], AbsentOffsets)) :
                 t \in {"null", "num", "str", "list"}}
        \cup {File("json", JsonValue("obj", pv, ov)) :
                 pv \in [Hands -> PivotEntries], ov \in OffsetsValues}
MaxLoadSteps == 2

InitLoad ==
    \E file \in LoadFiles :
        AppStarted(Config(TRUE, "Analog", FALSE), file, TRUE, AllAssets, Midnight)

NextLoad ==
    \/ steps < MaxLoadSteps /\ LoadStep3
    \/ steps < MaxLoadSteps /\ Restart

SpecLoad == InitLoad /\ [][NextLoad]_vars

\* The file is a record as _save_hand_pivots writes one: an object whose pivot
\* entries, where present, are a pair of numbers or "center" or "bottom", and
\* whose offsets are an object of pairs of integers
WellFormed(file) ==
    /\ file.kind = "json" /\ file.data.t = "obj"
    /\ \A k \in Hands :
          \/ file.data.pivots[k].t \in {"absent", "ratio"}
          \/ /\ file.data.pivots[k].t = "str"
             /\ Lower(file.data.pivots[k].s) \in {"center", "bottom"}
    /\ file.data.offsets.t \in {"absent", "obj"}
    /\ \A k \in Hands : file.data.offsets.v[k].t \in {"absent", "pair"}

\* C9: constructing the Clock never raises from loading the geometry file,
\* whatever the file holds; and unless the file is a well-formed record every
\* pivot and offset is left at its default.
C9_LoadNeverRaises ==
    ev.op = "load_step_3" =>
        /\ raised = "none"
        /\ ~WellFormed(pivots_file) =>
              hand_pivots = NoPivots /\ element_offsets = NoOffsets

(***************************************************************************)
(* SpecSession: the console's scale and rotation commands, resize mode and *)
(* a resize key, a write of the geometry file, and restarts                *)
(***************************************************************************)
\* A record of an earlier run to which somebody added the keys "scale" and
\* "rotation" by hand
EditedFile == File("json", WithKeys(EarlierFile.data, {"scale", "rotation"}))

ResizeElements == {"face", "hour"}
\* The scales the console sets, in tenths: 0.0, 0.2, 4.9, 6.0
ScaleChoices == {0, 2, 49, 60}
MaxSessionSteps == 4

InitSession ==
    \E cfg \in {Config(TRUE, "Analog", FALSE), Config(FALSE, "Digital", FALSE)},
       file \in {MissingFile, EditedFile} :
        ClockRunning(cfg, file, Midnight, NoPivots, DefaultRotations, NoOffsets,
                     Midnight)

NextSession ==
    \/ \E e \in ResizeElements :
          steps < MaxSessionSteps /\ SetResizeMode(e, TRUE)
    \/ \E k \in {"equal", "minus"} :
          steps < MaxSessionSteps /\ OnResizeKey(k, "window")
    \/ \E e \in ResizeElements, v \in ScaleChoices :
          steps < MaxSessionSteps /\ SetElementScale(e, v)
    \/ \E e \in ResizeElements :
          steps < MaxSessionSteps /\ SetElementRotation(e, QuarterTurn)
    \/ steps < MaxSessionSteps /\ SetDragDrop("hour", FALSE, "ok")
    \/ steps < MaxSessionSteps /\ Restart
    \/ steps < MaxSessionSteps /\ LoadStep3

SpecSession == InitSession /\ [][NextSession]_vars

\* C11: scale and rotation overrides are session-only.  No step writes them
\* to the geometry file: a step that changes the file leaves the object built
\* from the pivots and the offsets of the hands, with no other key, and the
\* commands and keys that set an override leave the file as it is.  After a
\* restart every element's scale override is 1.0 and its rotation override 0,
\* whatever they were before and whatever the file holds.
C11_OverridesSessionOnly ==
    [][/\ pivots_file' # pivots_file =>
             /\ pivots_file'.kind = "json"
             /\ pivots_file'.data.extra = {}
             /\ pivots_file'.data.pivots \in
                   [Hands -> {AbsentP} \cup {PEntry("str", <<0, 1>>, <<0, 1>>, k) :
                                                k \in {"center", "bottom"}}
                               \cup {PEntry("ratio", hand_pivots'[k].xr, hand_pivots'[k].yr, "") :
                                        k \in Hands}
                               \cup {PEntry("ratio", Round4(hand_pivots'[k].xr),
                                                Round4(hand_pivots'[k].yr), "") :
                                        k \in Hands}]
             /\ pivots_file'.data.offsets =
                   OffsetsValue("obj", [k \in Hands |-> OEntry("pair", element_offsets'[k])])
       /\ ev'.op \in {"set_element_scale", "set_element_rotation", "set_resize_mode",
                      "resize_key"} => pivots_file' = pivots_file
       /\ ev'.op = "load_step_3" =>
             /\ \A e \in Elements : element_scale_override'[e] = 10
             /\ \A e \in Elements : element_rotation_override'[e] = 0
             /\ pivots_file' = pivots_file]_vars

\* C11 witness: the process ended with an override set, after it had written
\* the geometry file; the Clock constructed next has scale 1.0 and rotation 0
\* for every element, and the file holds no key but the pivots and offsets.
C11_Witness ==
    /\ ev.op = "load_step_3" /\ ev.changed /\ app_phase = "running"
    /\ pivots_file.kind = "json" /\ pivots_file.data.extra = {}
    /\ element_scale_override = [e \in Elements |-> 10]
    /\ element_rotation_override = [e \in Elements |-> 0]

(***************************************************************************)
(* SpecResize: resize mode, the resize keys and the console's scale        *)
(* command, in analog and in digital mode                                  *)
(***************************************************************************)
MaxResizeSteps == 6

InitResize ==
    \E cfg \in {Config(TRUE, "Analog", FALSE), Config(FALSE, "Digital", FALSE)} :
        ClockRunning(cfg, MissingFile, Midnight, NoPivots, DefaultRotations,
                     NoOffsets, Midnight)

NextResize ==
    \/ \E e \in ResizeElements, b \in BOOLEAN :
          steps < MaxResizeSteps /\ SetResizeMode(e, b)
    \/ \E k \in ResizeKeys, w \in KeyWidgets :
          steps < MaxResizeSteps /\ OnResizeKey(k, w)
    \/ \E e \in ResizeElements, v \in ScaleChoices :
          steps < MaxResizeSteps /\ SetElementScale(e, v)

SpecResize == InitResize /\ [][NextResize]_vars

\* C12: in every state at most one element is in resize mode (a resize key
\* changes the scale of no element but the one in resize mode), and after
\* set_resize_mode(B, True) the element in resize mode is B, whichever
\* element was in resize mode before.
C12_OneResizeElement ==
    [][/\ resize_mode_element' \in Elements \cup {"none"}
       /\ (ev'.op = "set_resize_mode" /\ ev'.on) => resize_mode_element' = ev'.elem
       /\ ev'.op = "resize_key" =>
             /\ resize_mode_element' = resize_mode_element
             /\ \A e \in Elements :
                   element_scale_override'[e] # element_scale_override[e]
                      => e = resize_mode_element']_vars

\* C12 witness: with the face in resize mode, set_resize_mode("hour", True)
\* was called: the hour hand is the element in resize mode.
C12_Witness ==
    /\ ev.op = "set_resize_mode" /\ ev.on /\ ev.changed /\ ev.elem = "hour"
    /\ resize_mode_element = "hour"

\* C13 as stated: while an element is in resize mode every =/+ key event adds
\* 0.1 to its scale override and every -/_ key event subtracts 0.1, the result
\* clamped to [0.1, 5.0], and the event is handled; with no element in resize
\* mode a key event changes no scale and is not handled.  In tenths.
C13_KeyAdjustsScale ==
    [][ev'.op = "resize_key" =>
          LET e == resize_mode_element
              v == element_scale_override[e] + ev'.val
          IN  IF e # "none"
              THEN /\ ev'.on
                   /\ element_scale_override'[e] =
                         (IF v < 1 THEN 1 ELSE IF v > 50 THEN 50 ELSE v)
                   /\ 1 <= element_scale_override'[e]
                   /\ element_scale_override'[e] <= 50
              ELSE ~ev'.on /\ element_scale_override' = element_scale_override]_vars

\* C13 amended: the same for the key events delivered to a widget outside the
\* console; a key event delivered to the console, or with no element in resize
\* mode, changes no scale and is not handled.
C13_KeyOutsideConsoleAdjustsScale ==
    [][ev'.op = "resize_key" =>
          LET e == resize_mode_element
              v == element_scale_override[e] + ev'.val
          IN  IF e # "none" /\ ev'.at # "console"
              THEN /\ ev'.on
                   /\ element_scale_override'[e] =
                         (IF v < 1 THEN 1 ELSE IF v > 50 THEN 50 ELSE v)
                   /\ 1 <= element_scale_override'[e]
                   /\ element_scale_override'[e] <= 50
              ELSE ~ev'.on /\ element_scale_override' = element_scale_override]_vars

\* C13 witness: set_resize_mode("hour", True) and five =/+ key events from
\* the scale 1.0 give 1.5.
C13_Witness ==
    /\ steps = 6 /\ ev.op = "resize_key" /\ ev.on /\ ev.val = 1
    /\ resize_mode_element = "hour"
    /\ element_scale_override["hour"] = 15
    /\ element_scale_override["face"] = 10

\* C14: in every state every scale override is at least 0.1, and
\* set_element_scale(e, v) stores max(0.1, v), however large v is.  In tenths.
C14_ScaleAtLeastTenth ==
    /\ \A e \in Elements : element_scale_override[e] >= 1
    /\ ev.op = "set_element_scale" =>
          element_scale_override[ev.elem] = (IF ev.val >= 1 THEN ev.val ELSE 1)

\* C14 witness: set_element_scale("hour", 6.0) stored 6.0, above the 5.0 the
\* resize keys stop at.
C14_Witness ==
    /\ ev.op = "set_element_scale" /\ ev.elem = "hour" /\ ev.val = 60
    /\ element_scale_override["hour"] = 60

\* C33: set_resize_mode(A, False) ends resize mode only when A is the element
\* in resize mode; when a different element B is in resize mode, B stays in
\* resize mode.
C33_OffEndsOwnResizeMode ==
    [][(ev'.op = "set_resize_mode" /\ ~ev'.on) =>
          resize_mode_element' =
             (IF resize_mode_element = ev'.elem THEN "none" ELSE resize_mode_element)]_vars

\* C34: in resize mode an increment key event never lowers the scale override
\* of the element and a decrement key event never raises it, after any
\* sequence of set_element_scale calls and key events.  In tenths.
C34_KeysMonotonic ==
    [][(ev'.op = "resize_key" /\ resize_mode_element # "none") =>
          LET e == resize_mode_element
          IN  IF ev'.val > 0
              THEN element_scale_override'[e] >= element_scale_override[e]
              ELSE element_scale_override'[e] <= element_scale_override[e]]_vars

(***************************************************************************)
(* SpecTick: construction, the first layout, the per-second tick at        *)
(* several times of day, the animation switch, a rotation command and a    *)
(* full redraw, with and without Pillow and the face image                 *)
(***************************************************************************)
\* The times of day of the ticks: the hours at which every hand angle is a
\* multiple of 90 degrees in 24-hour mode
TickTimes == {Midnight, <<6, 0, 0, 0>>, <<12, 0, 0, 0>>}
TickAssets == {AllAssets, [AllAssets EXCEPT !["face"] = FALSE],
               [AllAssets EXCEPT !["hour"] = FALSE]}
MaxTickSteps == 5

InitTick ==
    \E cfg \in InitialConfigs, pil \in BOOLEAN, assets \in TickAssets,
       t \in TickTimes :
        AppStarted(cfg, MissingFile, pil, assets, t)

NextTick ==
    \/ steps < MaxTickSteps /\ LoadStep3
    \/ steps < MaxTickSteps /\ ~Mapped /\ OnCanvasConfigure(300, 300, "none")
    \/ \E t \in TickTimes : steps < MaxTickSteps /\ UpdateTime(t)
    \/ \E b \in BOOLEAN : steps < MaxTickSteps /\ SetAnalogAnimation(b)
    \/ steps < MaxTickSteps /\ SetElementRotation("hour", QuarterTurn)
    \/ steps < MaxTickSteps /\ RefreshTranslations

SpecTick == InitTick /\ [][NextTick]_vars

\* What a hands-only redraw leaves: the face item, its position and its image
\* object as they were, the image still held, and the three hands drawn anew
HandsOnlyRedrawn ==
    /\ canvas_items'["face"] = canvas_items["face"]
    /\ canvas_items'["text"] = canvas_items["text"]
    /\ item_image'["face"] = item_image["face"]
    /\ item_image'["face"] \in Range(photo_refs')
    /\ \A k \in Hands :
          /\ canvas_items'[k] = HandItem(k, NextDrawInput)
          /\ canvas_items'[k].on => item_image'[k] \notin {0, item_image[k]}

C20_HandsAtZeroWithoutAnimation ==
    [][(app_phase' = "running" /\ ~use_digital' /\ ~analog_animation_enabled') =>
          /\ \A k \in Hands : canvas_items'[k].on => hand_angles'[k] = 0
          /\ ev'.op = "update_time" =>
                canvas_items' = canvas_items /\ hand_angles' = hand_angles]_vars

\* C24: when the face image is unavailable, every redraw in analog mode puts
\* a placeholder text on the canvas instead of the face and raises nothing:
\* the canvas of a Clock whose face image is not loaded shows the text.
C24_PlaceholderWithoutFace ==
    (app_phase = "running" /\ has_canvas /\ ~hand_images["face"])
        => (canvas_items["text"].on /\ raised = "none")

(***************************************************************************)
(* SpecFrame: the redraws of the tick and of refresh_translations taken    *)
(* one canvas operation at a time.  frame.pc is the position of the redraw *)
(* in progress: "face" (after delete("all"), before the face image is      *)
(* created), a hand (before that round of the loop over the hands), "end"  *)
(* (before the assignment to _photo_refs), "idle" (between events).        *)
(* frame.refs is the list of the redraw: new_refs of a full redraw,        *)
(* refs_list of a hands-only redraw that owns its list.                    *)
(***************************************************************************)
MaxFrameSteps == 4

\* What no step of a redraw changes
RedrawFrame ==
    /\ FilesUnchanged /\ AppUnchanged /\ DisplayUnchanged
    /\ UNCHANGED <<analog_animation_enabled, resize_mode_element, tick_pending>>
    /\ UNCHANGED <<pivots_file, canvas_size, last_canvas_size, drag_drop,
                   element_offsets, element_scale_override,
                   element_rotation_override, hand_pivots, drag_target, drag_start,
                   drag_origin>>
    /\ raised' = "none"

\* The image objects that are alive or shown by an item
ImagesInUse ==
    Range(photo_refs) \cup Range(frame.refs) \cup {item_image[g] : g \in Tags}

\* _draw_analog_clock(force_full) up to its first image: the placeholder text
\* or the return without a face image, else the delete of the items
EnterDraw(force_full) ==
    LET branch == DrawBranch(canvas_items, NextDrawInput, force_full)
    IN  /\ canvas_items' =
              CASE branch = "text" -> [EmptyCanvas EXCEPT !["text"] = TextItem(NextDrawInput)]
                [] branch = "return" -> canvas_items
                [] branch = "hands" ->
                     [g \in Tags |-> IF g \in Hands THEN NoItem ELSE canvas_items[g]]
                [] branch = "full" -> EmptyCanvas
        /\ item_image' =
              CASE branch = "text" -> NoItemImages
                [] branch = "return" -> item_image
                [] branch = "hands" ->
                     [g \in Tags |-> IF g \in Hands THEN 0 ELSE item_image[g]]
                [] branch = "full" -> NoItemImages
        /\ frame' =
              CASE branch = "hands" ->
                     [pc |-> "hour", refs |-> HandsOnlyRefs(photo_refs), owned |-> TRUE]
                [] branch = "full" -> [pc |-> "face", refs |-> <<>>, owned |-> FALSE]
                [] OTHER -> NoFrame
        /\ hand_angles' =
              IF branch = "hands"
              THEN RenderAngles(analog_animation_enabled, now', use_12_hour)
              ELSE hand_angles
        /\ UNCHANGED photo_refs

\* _update_time() up to the first image of its redraw
BeginUpdateTime(t) ==
    LET draws == ~use_digital /\ analog_animation_enabled
    IN  /\ Running /\ frame.pc = "idle" /\ tick_pending > 0
        /\ now' = t
        /\ RedrawFrame
        /\ IF draws THEN EnterDraw(FALSE)
           ELSE UNCHANGED <<canvas_items, item_image, frame, hand_angles, photo_refs>>
        /\ ev' = Event("update_time",
                        IF draws THEN DrawBranch(canvas_items, NextDrawInput, FALSE)
                        ELSE "none",
                        draws, "none")
        /\ steps' = steps + 1

\* refresh_translations() up to the first image of its redraw
BeginRefreshTranslations ==
    LET draws == ~use_digital /\ has_canvas
    IN  /\ Running /\ frame.pc = "idle"
        /\ now' = now
        /\ RedrawFrame
        /\ IF draws THEN EnterDraw(TRUE)
           ELSE UNCHANGED <<canvas_items, item_image, frame, hand_angles, photo_refs>>
        /\ ev' = Event("refresh_translations", "none", draws, "none")
        /\ steps' = steps + 1

\* The face of a full redraw: face_photo, new_refs.append, create_image; then
\* the call of _draw_analog_hands_only with new_refs, up to its loop
DrawFaceStep ==
    /\ frame.pc = "face"
    /\ \E photo \in {NewImage(ImagesInUse, 1)} :
        /\ photo \in 1..MaxImages
        /\ now' = now
        /\ RedrawFrame
        /\ canvas_items' = [canvas_items EXCEPT !["face"] = FaceItem(DrawInputNow)]
        /\ item_image' = [item_image EXCEPT !["face"] = photo]
        /\ frame' = [frame EXCEPT !.pc = "hour", !.refs = Append(@, photo)]
        /\ hand_angles' = RenderAngles(analog_animation_enabled, now, use_12_hour)
        /\ UNCHANGED <<photo_refs, steps>>
        /\ ev' = Event("draw_face", "face", TRUE, "none")

\* The hand after k in the loop, "end" after the last
NextHandOf(k) ==
    CASE k = "hour" -> "minute" [] k = "minute" -> "second" [] k = "second" -> "end"

\* One round of the loop of _draw_analog_hands_only: _rotated_hand,
\* refs_list.append, create_image, or nothing when _rotated_hand returns None
DrawHandStep ==
    /\ frame.pc \in Hands
    /\ \E photo \in {NewImage(ImagesInUse, 1)} :
        /\ photo \in 1..MaxImages
        /\ now' = now
        /\ RedrawFrame
        /\ canvas_items' =
              IF hand_images[frame.pc]
              THEN [canvas_items EXCEPT ![frame.pc] = HandItem(frame.pc, DrawInputNow)]
              ELSE canvas_items
        /\ item_image' =
              IF hand_images[frame.pc]
              THEN [item_image EXCEPT ![frame.pc] = photo] ELSE item_image
        /\ frame' = [frame EXCEPT
                        !.pc = NextHandOf(frame.pc),
                        !.refs = IF hand_images[frame.pc] THEN Append(@, photo) ELSE @]
        /\ UNCHANGED <<photo_refs, hand_angles, steps>>
        /\ ev' = Event("draw_hand", frame.pc, hand_images[frame.pc], "none")

\* The end of the redraw: self._photo_refs[:] = refs_list (or new_refs)
FinishDraw ==
    /\ frame.pc = "end"
    /\ now' = now
    /\ RedrawFrame
    /\ photo_refs' = frame.refs
    /\ frame' = NoFrame
    /\ UNCHANGED <<canvas_items, item_image, hand_angles, steps>>
    /\ ev' = Event("draw_end", "none", frame.owned, "none")

InitFrame ==
    \E cfg \in InitialConfigs, pil \in BOOLEAN, assets \in TickAssets,
       t \in TickTimes :
        AppStarted(cfg, MissingFile, pil, assets, t)

NextFrame ==
    \/ steps < MaxFrameSteps /\ LoadStep3
    \/ \E t \in TickTimes : steps < MaxFrameSteps /\ BeginUpdateTime(t)
    \/ steps < MaxFrameSteps /\ BeginRefreshTranslations
    \/ DrawFaceStep
    \/ DrawHandStep
    \/ FinishDraw

SpecFrame == InitFrame /\ [][NextFrame]_vars

ClockUnchanged ==
    /\ ConfigUnchanged
    /\ UNCHANGED <<pivots_file, canvas_size, last_canvas_size, canvas_items,
                   drag_drop, element_offsets, element_scale_override,
                   element_rotation_override, hand_pivots, drag_target, drag_start,
                   hand_angles, item_image, photo_refs, drag_origin>>

\* Options._save_option(section, full_key, value): the option is written to
\* the ini file, which then holds cfg
SaveOption(cfg) ==
    /\ Running /\ ui.menu = "options" /\ ui.dialog = "none"
    /\ Cardinality({k \in DOMAIN ini : cfg[k] # ini[k]}) = 1
    /\ ini' = cfg
    /\ UNCHANGED <<now, has_pil, asset_files, zone_data>>
    /\ AppUnchanged /\ ClockUnchanged
    /\ raised' = "none"
    /\ ev' = Event("save_option", "none", FALSE, "none")
    /\ steps' = steps + 1

\* The views a button of the view shown leads to (_switch_to_main ends the
\* loading screen)
MenusFrom(menu) ==
    IF menu = "main" THEN {"clock", "options"} ELSE {"main"}

\* The names switch_menu has a view for
ValidMenus == {"main", "options", "clock"}

\* The window after switch_menu(menu): every view is hidden, current_menu is
\* assigned, then the view named is shown (the Clock that becomes visible is
\* sent a <Map> event) or ValueError is raised
SwitchMenuTo(u, menu) ==
    [u EXCEPT !.menu = IF menu \in ValidMenus THEN menu ELSE "none",
              !.current_menu = menu,
              !.map_pending = menu = "clock"]

\* ClockApp.switch_menu(menu), called with any name
SwitchMenuCall(menu) ==
    /\ Running /\ ui.dialog = "none" /\ ~ui.map_pending
    /\ ui' = SwitchMenuTo(ui, menu)
    /\ UNCHANGED <<workers, after_queue>>
    /\ UNCHANGED now /\ FilesUnchanged /\ ClockUnchanged
    /\ raised' = IF menu \in ValidMenus THEN "none" ELSE "ValueError"
    /\ ev' = Event("switch_menu", menu, FALSE, "none")
    /\ steps' = steps + 1

\* ClockApp.switch_menu(menu) as the buttons of the view shown call it
SwitchMenu(menu) ==
    /\ menu \in MenusFrom(ui.menu)
    /\ SwitchMenuCall(menu)

\* winfo_width / winfo_height of a canvas just created in the visible Clock:
\* not laid out yet, or laid out by update_idletasks
NewCanvasSizes == {<<1, 1>>, <<300, 300>>}

\* _draw_analog_clock() of _refresh_on_show and _build_clock_display on the
\* canvas holding items (images imgs), or no redraw; the redraw may raise
ShowRedraws(items, imgs, draws) ==
    \E branch \in {IF draws THEN DrawBranch(items, NextDrawInput, TRUE) ELSE "none"} :
    \E stop \in {RedrawStop(branch, NextDrawInput)} :
        LET m == DrawInputUpTo(NextDrawInput, stop)
            r == DrawAnalogClockRefs(items, imgs, photo_refs, m, TRUE)
        IN  /\ canvas_items' = IF ~draws THEN items
                               ELSE IF stop = "face" THEN EmptyCanvas
                               ELSE DrawAnalogClock(items, m, TRUE)
            /\ hand_angles' = IF draws /\ stop # "face"
                              THEN AnglesAfterDraw(hand_angles, m) ELSE hand_angles
            /\ item_image' = IF ~draws THEN imgs
                             ELSE IF stop = "face" THEN NoItemImages ELSE r.images
            /\ photo_refs' = IF draws /\ stop = "none" THEN r.refs ELSE photo_refs
            /\ raised' = IF stop = "none" THEN "none" ELSE "OverflowError"
            /\ ev' = Changed(Event("refresh_on_show", branch, draws, "none"),
                              use_digital' # use_digital)

\* new_use_digital of _refresh_on_show
NewUseDigital(cfg) == UseDigital(cfg)

\* _on_map(event) -> _refresh_on_show(): the configuration is read again, the
\* display is destroyed and built again when the mode changed
RefreshOnShow ==
    LET lc == LoadClockConfig(ini, zone_data)
        loaded == lc.raised = "none"
        new_use_digital == NewUseDigital(ini)
        rebuilt == loaded /\ new_use_digital # use_digital
        to_analog == rebuilt /\ ~new_use_digital
    IN  /\ Running /\ ui.map_pending
        /\ ui' = [ui EXCEPT !.map_pending = FALSE]
        /\ UNCHANGED <<workers, after_queue>>
        /\ UNCHANGED now /\ FilesUnchanged
        /\ UNCHANGED <<app_phase, resize_mode_element, frame, tick_pending>>
        /\ UNCHANGED <<pivots_file, last_canvas_size, drag_drop, element_offsets,
                       element_scale_override, element_rotation_override,
                       hand_pivots, drag_target, drag_start, drag_origin>>
        /\ use_12_hour' = IF loaded THEN lc.use_12_hour ELSE use_12_hour
        /\ tz' = IF loaded THEN lc.timezone ELSE tz
        /\ analog_animation_enabled' =
              IF loaded THEN lc.animation ELSE analog_animation_enabled
        /\ use_digital' = IF loaded THEN new_use_digital ELSE use_digital
        /\ has_canvas' = IF rebuilt THEN ~new_use_digital ELSE has_canvas
        /\ has_label' = IF rebuilt THEN new_use_digital ELSE has_label
        /\ hand_images' = IF to_analog /\ has_pil THEN asset_files ELSE hand_images
        /\ has_hand_images' = (has_hand_images \/ (to_analog /\ has_pil))
        /\ IF to_analog THEN canvas_size' \in NewCanvasSizes
           ELSE canvas_size' = canvas_size
        /\ IF ~loaded
           THEN /\ UNCHANGED <<canvas_items, hand_angles, item_image, photo_refs>>
                /\ raised' = lc.raised
                /\ ev' = Event("refresh_on_show", "none", FALSE, "none")
           ELSE ShowRedraws(IF rebuilt THEN EmptyCanvas ELSE canvas_items,
                            IF rebuilt THEN NoItemImages ELSE item_image,
                            ~new_use_digital /\ (rebuilt \/ has_canvas))
        /\ steps' = steps + 1

\* _update_time() as the timer calls it, any number of times between two
\* events of the user
Tick(t) == UpdateTimeRuns(t) /\ UNCHANGED steps

(***************************************************************************)
(* SpecShow: the running clock, hidden and shown again, while options are  *)
(* saved, console commands set the animation and a scale, and the timer    *)
(* ticks                                                                   *)
(***************************************************************************)
\* The scales the console sets, in tenths: 2.0 and 100000000
ShowScales == {20, 1000000000}
\* What the ini file may hold after an option was saved: the time zone is
\* one of supported_timezones
ShowZones == {"UTC", "EST", "etc."}
ShowInis ==
    {WithZone(Config(a, c, FALSE), z) :
        a \in BOOLEAN, c \in {"Analog", "Digital"}, z \in ShowZones}
ShowTimes == {Midnight, <<6, 0, 0, 0>>}
MaxShowSteps == 6

\* The application starts, or the Clock runs and the options are shown, on a
\* system with the IANA database or on one without it where the Clock was
\* constructed with a time zone that is no abbreviation
InitShow ==
    \E cfg \in InitialConfigs :
        \/ AppStarted(cfg, MissingFile, TRUE, AllAssets, Midnight)
        \/ \E zones \in {AllZones, NoZones} :
              ClockRunningOn(IF zones = NoZones THEN WithZone(cfg, "etc.") ELSE cfg,
                             MissingFile, Midnight, NoPivots, DefaultRotations,
                             NoOffsets, Midnight, zones, "options")

NextShow ==
    \/ steps < MaxShowSteps /\ LoadStep3
    \/ \E menu \in {"main", "options", "clock"} :
          steps < MaxShowSteps /\ SwitchMenu(menu)
    \/ steps < MaxShowSteps /\ RefreshOnShow
    \/ \E cfg \in ShowInis : steps < MaxShowSteps /\ SaveOption(cfg)
    \/ \E t \in ShowTimes : steps < MaxShowSteps /\ UpdateTime(t)
    \/ \E v \in ShowScales : steps < MaxShowSteps /\ SetElementScale("hour", v)
    \/ \E b \in BOOLEAN : steps < MaxShowSteps /\ SetAnalogAnimation(b)

SpecShow == InitShow /\ [][NextShow]_vars

\* C21: the per-second tick never stops and never duplicates.  In every state
\* in which the Clock exists exactly one _update_time callback is pending:
\* every tick schedules the next one, whatever the mode, the animation flag,
\* the console commands and the reloads of the configuration in between.
C21_OneTickPending == app_phase = "running" => tick_pending = 1

(***************************************************************************)
(* SpecShowLive: the same views and options, with a timer that keeps       *)
(* ticking between the events of the user                                  *)
(***************************************************************************)
MaxLiveSteps == 4

InitShowLive ==
    \E cfg \in InitialConfigs :
        ClockRunningOn(cfg, MissingFile, Midnight, NoPivots, DefaultRotations,
                       NoOffsets, Midnight, AllZones, "options")

NextShowLive ==
    \/ \E menu \in {"main", "options", "clock"} :
          steps < MaxLiveSteps /\ SwitchMenu(menu)
    \/ steps < MaxLiveSteps /\ RefreshOnShow
    \/ \E cfg \in ShowInis : steps < MaxLiveSteps /\ SaveOption(cfg)
    \/ \E t \in ShowTimes : Tick(t)

\* The timer fires again and again
SpecShowLive ==
    InitShowLive /\ [][NextShowLive]_vars /\ WF_vars(\E t \in ShowTimes : Tick(t))

\* C22: a change of the configured clock type is detected by the running
\* tick.  Whenever the mode the ini file configures differs from the mode
\* displayed, the ticks that follow lead to a state in which the display has
\* the configured mode, whether or not the clock view is shown again.
C22_TickSwitchesDisplay ==
    (app_phase = "running" /\ use_digital # UseDigital(ini))
        ~> (use_digital = UseDigital(ini))

\* C23: each time the clock view becomes visible the configuration is
\* reloaded, and the display widget is destroyed and built again exactly when
\* the analog/digital mode changed; in every state in which the Clock exists
\* exactly one display widget exists, the canvas when analog and the label
\* when digital.
C23_ReloadAndRebuild ==
    /\ [](app_phase = "running" =>
             /\ has_canvas # has_label
             /\ has_label = use_digital)
    /\ [][ev'.op = "refresh_on_show" /\ steps' # steps =>
             /\ use_12_hour' = ini.use_12_hour
             /\ analog_animation_enabled' = ini.animation
             /\ use_digital' = UseDigital(ini)
             /\ ev'.changed = (UseDigital(ini) # use_digital)
             /\ ~ev'.changed => (has_canvas' = has_canvas /\ has_label' = has_label)]_vars

(***************************************************************************)
(* SpecReshow: the clock view shown again after console commands, on a     *)
(* Clock whose pivots, rotations and offsets were set before               *)
(***************************************************************************)
MaxReshowSteps == 5

InitReshow ==
    \E cfg \in InitialConfigs, zones \in {AllZones, NoZones},
       menu \in {"main", "options"} :
        ClockRunningOn(IF zones = NoZones THEN WithZone(cfg, "etc.") ELSE cfg,
                       MissingFile, Midnight,
                       [NoPivots EXCEPT !["minute"] = RatioPivot(<<1, 3>>, <<2, 3>>)],
                       [DefaultRotations EXCEPT !["hour"] = QuarterTurn],
                       [NoOffsets EXCEPT !["second"] = <<7, -13>>],
                       Midnight, zones, menu)

NextReshow ==
    \/ \E menu \in {"main", "options", "clock"} :
          steps < MaxReshowSteps /\ SwitchMenu(menu)
    \/ steps < MaxReshowSteps /\ RefreshOnShow
    \/ \E cfg \in ShowInis : steps < MaxReshowSteps /\ SaveOption(cfg)
    \/ \E b \in BOOLEAN : steps < MaxReshowSteps /\ SetAnalogAnimation(b)
    \/ steps < MaxReshowSteps /\ SetResizeMode("hour", TRUE)
    \/ steps < MaxReshowSteps /\ SetElementScale("face", 20)
    \/ steps < MaxReshowSteps /\ SetDragDrop("face", TRUE, "none")

SpecReshow == InitReshow /\ [][NextReshow]_vars

\* C36 as stated: re-showing the clock view (_refresh_on_show) leaves every
\* piece of state set through the console unchanged: the drag flags, the
\* resize-mode element, the scale and rotation overrides, the pivots, the
\* offsets, and the analog-animation flag set by set_analog_animation.
C36_ReshowKeepsConsoleState ==
    [][ev'.op = "refresh_on_show" =>
          UNCHANGED <<drag_drop, resize_mode_element, element_scale_override,
                      element_rotation_override, hand_pivots, element_offsets,
                      analog_animation_enabled>>]_vars

\* C36 amended: re-showing the clock view leaves the drag flags, the
\* resize-mode element, the scale and rotation overrides, the pivots and the
\* offsets unchanged; the analog-animation flag is read again from the ini
\* file with the rest of the configuration (it is left as it is only when
\* reading the configuration raises).
C36_ReshowKeepsGeometryState ==
    [][ev'.op = "refresh_on_show" =>
          /\ UNCHANGED <<drag_drop, resize_mode_element, element_scale_override,
                         element_rotation_override, hand_pivots, element_offsets>>
          /\ analog_animation_enabled' =
                IF raised' \in {"ValueError", "ZoneInfoNotFoundError"}
                THEN analog_animation_enabled
                ELSE ini.animation]_vars

\* C36 witness: the clock view was shown again after the console had put the
\* hour hand in resize mode, made the face draggable and scaled it by 2.0, on
\* a Clock with a Ratio pivot, a rotation and an offset: all of them are there.
C36_Witness ==
    /\ ev.op = "refresh_on_show" /\ raised = "none"
    /\ resize_mode_element = "hour" /\ drag_drop["face"]
    /\ element_scale_override["face"] = 20
    /\ element_rotation_override["hour"] = QuarterTurn
    /\ hand_pivots["minute"] = RatioPivot(<<1, 3>>, <<2, 3>>)
    /\ element_offsets["second"] = <<7, -13>>
    /\ analog_animation_enabled = ini.animation

(***************************************************************************)
(* SpecZone: the application started with every kind of app_timezone, on a *)
(* system with the IANA database and on one without                        *)
(***************************************************************************)
\* Values of app_timezone: empty, an abbreviation, one in lower case, an IANA
\* name, the last entry of supported_timezones, an unknown name, and a name
\* zoneinfo rejects
ZoneNames == {"", "UTC", "est", "Europe/Paris", "etc.", "Mars/Olympus", "Europe/Paris/"}
MaxZoneSteps == 5

InitZone ==
    \E cfg \in InitialConfigs, name \in ZoneNames, zones \in {AllZones, NoZones} :
        AppStartedWith(WithZone(cfg, name), MissingFile, TRUE, AllAssets, zones,
                       Midnight)

NextZone ==
    \/ steps < MaxZoneSteps /\ LoadStep3
    \/ \E menu \in {"main", "options", "clock"} :
          steps < MaxZoneSteps /\ SwitchMenu(menu)
    \/ steps < MaxZoneSteps /\ RefreshOnShow
    \/ \E t \in ShowTimes : steps < MaxZoneSteps /\ UpdateTime(t)
    \/ steps < MaxZoneSteps /\ Restart

SpecZone == InitZone /\ [][NextZone]_vars

\* C26: for every configured time zone name or abbreviation the resolution
\* yields a zone or falls back to local time without raising: loading the
\* configuration raises nothing, neither when the Clock is constructed (the
\* application leaves the loading phase with a Clock) nor when the clock view
\* is shown again.
C26_TimezoneNeverRaises ==
    /\ app_phase # "stuck"
    /\ ev.op \in {"load_step_3", "refresh_on_show"} =>
          raised \notin {"ValueError", "ZoneInfoNotFoundError"}

(***************************************************************************)
(* The console: Console._execute.  A command line                          *)
(* "clock.<name>.<kind> = <arg>" is the record of its element name as      *)
(* typed, its kind and its argument; the argument is the sequence of its   *)
(* tokens: a digit, ".", "-", ",", " ", the letter "x", or one of the      *)
(* words true, false, center, bottom.                                      *)
(***************************************************************************)
Command(kind, name, arg) == [kind |-> kind, name |-> name, arg |-> arg]
NoCommand == Command("none", "", <<>>)

ELEMENT_ALIASES ==
    [face |-> "face", analog_clock |-> "face",
     hour_hand |-> "hour", analog_clock_hour_hand |-> "hour",
     minute_hand |-> "minute", analog_clock_minute_hand |-> "minute",
     second_hand |-> "second", analog_clock_second_hand |-> "second"]

\* name.strip().lower().replace(" ", "_") on the names the model types
ElementKey(name) ==
    CASE name = "Hour Hand" -> "hour_hand"
      [] name = " FACE" -> "face"
      [] OTHER -> name

\* _normalize_element(name) ("none" is None)
NormalizeElement(name) ==
    IF ElementKey(name) \in DOMAIN ELEMENT_ALIASES
    THEN ELEMENT_ALIASES[ElementKey(name)] ELSE "none"

Digits == {"0", "1", "2", "3", "4", "5", "6", "7", "8", "9"}
DigitValue(c) ==
    CASE c = "0" -> 0 [] c = "1" -> 1 [] c = "2" -> 2 [] c = "3" -> 3 [] c = "4" -> 4
      [] c = "5" -> 5 [] c = "6" -> 6 [] c = "7" -> 7 [] c = "8" -> 8 [] c = "9" -> 9

\* What re.match finds for a class [...]+ at the start of arg: the longest
\* run of tokens of the class (<<>>: no match)
RECURSIVE MatchClass(_, _)
MatchClass(arg, class) ==
    IF arg = <<>> \/ Head(arg) \notin class THEN <<>>
    ELSE <<Head(arg)>> \o MatchClass(Tail(arg), class)

\* arg without its first n tokens
Drop(arg, n) == SubSeq(arg, n + 1, Len(arg))

\* What \s* skips
RECURSIVE SkipSpaces(_)
SkipSpaces(arg) ==
    IF arg # <<>> /\ Head(arg) = " " THEN SkipSpaces(Tail(arg)) ELSE arg

\* str.strip()
RECURSIVE Strip(_)
Strip(arg) ==
    IF arg # <<>> /\ Head(arg) = " " THEN Strip(Tail(arg))
    ELSE IF arg # <<>> /\ arg[Len(arg)] = " " THEN Strip(SubSeq(arg, 1, Len(arg) - 1))
    ELSE arg

\* The number a sequence of digits spells
RECURSIVE NumberOf(_)
NumberOf(digits) ==
    IF digits = <<>> THEN 0
    ELSE 10 * NumberOf(SubSeq(digits, 1, Len(digits) - 1))
            + DigitValue(digits[Len(digits)])

RECURSIVE Power10(_)
Power10(k) == IF k = 0 THEN 1 ELSE 10 * Power10(k - 1)

\* float(text) returns a number (it raises ValueError otherwise): an optional
\* sign, digits with at most one point, at least one digit
IsFloat(text) ==
    LET t == Strip(text)
        body == IF t # <<>> /\ Head(t) = "-" THEN Tail(t) ELSE t
    IN  /\ \A i \in 1..Len(body) : body[i] \in Digits \cup {"."}
        /\ Cardinality({i \in 1..Len(body) : body[i] = "."}) <= 1
        /\ \E i \in 1..Len(body) : body[i] \in Digits

\* float(text) as <<numerator, denominator>>
FloatOf(text) ==
    LET t == Strip(text)
        neg == t # <<>> /\ Head(t) = "-"
        body == IF neg THEN Tail(t) ELSE t
        IsDigit(c) == c \in Digits
        point == {i \in 1..Len(body) : body[i] = "."}
        places == IF point = {} THEN 0 ELSE Len(body) - (CHOOSE i \in point : TRUE)
        n == NumberOf(SelectSeq(body, IsDigit))
    IN  <<IF neg THEN -n ELSE n, Power10(places)>>

\* The scale of the model (tenths) and its angle (angle units) for a float
ScaleOf(r) == (10 * r[1]) \div r[2]
DegreesOf(r) == (r[1] * (FullTurn \div 360)) \div r[2]

NumberTokens == Digits \cup {"."}

\* What re.match finds for [\d.]+\s*,\s*[\d.]+ at the start of arg
PairMatch(arg) ==
    LET x == MatchClass(arg, NumberTokens)
        r1 == SkipSpaces(Drop(arg, Len(x)))
        comma == r1 # <<>> /\ Head(r1) = ","
        y == IF comma THEN MatchClass(SkipSpaces(Tail(r1)), NumberTokens) ELSE <<>>
    IN  [matched |-> x # <<>> /\ comma /\ y # <<>>, x |-> x, y |-> y]

\* The call of a core setter a command ends in ("none": no call), and the
\* message returned when there is none
Call(name, elem, flag, val, pivot) ==
    [call |-> name, elem |-> elem, flag |-> flag, val |-> val, pivot |-> pivot,
     msg |-> "done"]
Message(msg) ==
    [call |-> "none", elem |-> "none", flag |-> FALSE, val |-> 0, pivot |-> NoPivot,
     msg |-> msg]

\* m.group(2) of the scale command: what [\d.]+ matched
ScaleText(arg) == MatchClass(arg, NumberTokens)

\* Console._execute(cmd) for a command of the form clock.<name>.<kind> = ...
ExecuteCall(cmd) ==
    LET elem == NormalizeElement(cmd.name)
        flagged == cmd.arg # <<>> /\ Head(cmd.arg) \in {"true", "false"}
        flag == flagged /\ Head(cmd.arg) = "true"
        scale == ScaleText(cmd.arg)
        degrees == MatchClass(cmd.arg, NumberTokens \cup {"-"})
        word == cmd.arg # <<>> /\ Head(cmd.arg) \in {"center", "bottom"}
        pair == PairMatch(cmd.arg)
    IN  CASE cmd.kind = "drag&drop" /\ flagged ->
                IF elem # "none" THEN Call("set_drag_drop", elem, flag, 0, NoPivot)
                ELSE Message("console.unknown_element")
          [] cmd.kind = "analog_animation" /\ flagged ->
                Call("set_analog_animation", "none", flag, 0, NoPivot)
          [] cmd.kind = "resize" /\ flagged ->
                IF elem # "none" THEN Call("set_resize_mode", elem, flag, 0, NoPivot)
                ELSE Message("console.unknown_element")
          [] cmd.kind = "scale" /\ scale # <<>> ->
                IF elem = "none" THEN Message("console.unknown_element")
                ELSE IF ~IsFloat(scale) THEN Message("console.invalid_scale")
                ELSE Call("set_element_scale", elem, FALSE, ScaleOf(FloatOf(scale)),
                          NoPivot)
          [] cmd.kind = "rotate" /\ degrees # <<>> ->
                IF elem = "none" THEN Message("console.unknown_element")
                ELSE IF ~IsFloat(degrees) THEN Message("console.invalid_rotation")
                ELSE Call("set_element_rotation", elem, FALSE,
                          DegreesOf(FloatOf(degrees)), NoPivot)
          [] cmd.kind = "pivot" /\ word ->
                IF elem # "none"
                THEN Call("set_hand_pivot", elem, FALSE, 0, StrPivot(Head(cmd.arg)))
                ELSE Message("console.invalid_pivot")
          [] cmd.kind = "pivot" /\ ~word /\ pair.matched ->
                IF elem # "none" /\ IsFloat(pair.x) /\ IsFloat(pair.y)
                THEN Call("set_hand_pivot", elem, FALSE, 0,
                          RatioPivot(FloatOf(pair.x), FloatOf(pair.y)))
                ELSE Message("console.invalid_pivot")
          [] OTHER -> Message("console.unknown_command")

\* The keys typed into the entry of the console: it holds cmd
TypeCommand(cmd) ==
    /\ Running /\ ui.menu # "loading" /\ ui.dialog = "none"
    /\ cmd # ui.console
    /\ ui' = [ui EXCEPT !.console = cmd]
    /\ UNCHANGED <<workers, after_queue>>
    /\ UNCHANGED now /\ FilesUnchanged /\ ClockUnchanged
    /\ raised' = "none"
    /\ ev' = Event("type_command", "none", FALSE, "none")
    /\ steps' = steps + 1

\* A command that calls no setter: the console logs the message returned
ConsoleSays(msg) ==
    /\ Running
    /\ EnvUnchanged /\ ClockUnchanged
    /\ raised' = "none"
    /\ ev' = Event("execute", "none", FALSE, msg)
    /\ steps' = steps + 1

\* Console._on_enter -> _execute(cmd): <Return> in the entry of the console
Execute ==
    \E c \in {ExecuteCall(ui.console)} :
        /\ ui.console # NoCommand /\ ui.dialog = "none"
        /\ CASE c.call = "set_drag_drop" ->
                   \E io \in {"ok", "none"} : SetDragDrop(c.elem, c.flag, io)
             [] c.call = "set_analog_animation" -> SetAnalogAnimation(c.flag)
             [] c.call = "set_resize_mode" -> SetResizeMode(c.elem, c.flag)
             [] c.call = "set_element_scale" -> SetElementScale(c.elem, c.val)
             [] c.call = "set_element_rotation" -> SetElementRotation(c.elem, c.val)
             [] c.call = "set_hand_pivot" -> SetHandPivot(c.elem, c.pivot)
             [] OTHER -> ConsoleSays(c.msg)

(***************************************************************************)
(* SpecConsole: a running analog or digital clock, commands typed and      *)
(* executed in the console, and the pointer pressed on the canvas          *)
(***************************************************************************)
\* The command lines typed: well-formed ones, unknown elements, and numeric
\* arguments that are no numbers
ConsoleCommands ==
    {Command("scale", "face", <<"2">>),
     Command("scale", "Hour Hand", <<"0", ".", "5">>),
     Command("scale", "nose", <<"2">>),
     Command("scale", "face", <<"2", "x">>),
     Command("scale", "face", <<"1", ".", "2", ".", "3">>),
     Command("scale", "face", <<".">>),
     Command("scale", "face", <<"x", "2">>),
     Command("rotate", "hour_hand", <<"9", "0">>),
     Command("rotate", "hour_hand", <<"-", "9", "0">>),
     Command("rotate", "hour_hand", <<"1", "-", "2">>),
     Command("rotate", "hands", <<"9", "0">>),
     Command("pivot", "hour_hand", <<"center">>),
     Command("pivot", "minute_hand", <<"0", ".", "5", ",", " ", "0", ".", "8">>),
     Command("pivot", "hour_hand", <<"5", ",", "7">>),
     Command("pivot", "hour_hand", <<"1", ".", ".", "2", ",", "0", ".", "5">>),
     Command("pivot", "hour_hand", <<"0", ".", "5", "x", "0", ".", "8">>),
     Command("pivot", "nose", <<"bottom">>),
     Command("drag&drop", "hour_hand", <<"true">>),
     Command("drag&drop", "second_hand", <<"false">>),
     Command("drag&drop", "nose", <<"true">>),
     Command("resize", " FACE", <<"true">>),
     Command("resize", "hour_hand", <<"true">>),
     Command("resize", "nose", <<"true">>),
     Command("analog_animation", "", <<"false">>),
     Command("analog_animation", "", <<"x">>)}
MaxConsoleSteps == 5

InitConsole ==
    \E cfg \in {Config(TRUE, "Analog", FALSE), Config(FALSE, "Digital", FALSE)},
       drags \in StoreDrags :
        ClockRunning(cfg, MissingFile, Midnight, NoPivots, DefaultRotations, drags,
                     Midnight)

NextConsole ==
    \/ \E cmd \in ConsoleCommands : steps < MaxConsoleSteps /\ TypeCommand(cmd)
    \/ steps < MaxConsoleSteps /\ Execute
    \/ \E p \in Points : steps < MaxConsoleSteps /\ Mapped /\ OnCanvasClick(p[1], p[2])

SpecConsole == InitConsole /\ [][NextConsole]_vars

\* The handlers a command of the console ends in
ConsoleOps ==
    {"execute", "set_drag_drop", "set_analog_animation", "set_resize_mode",
     "set_element_scale", "set_element_rotation", "set_hand_pivot"}

\* The element name of the command is no known element or alias
UnknownElement(cmd) ==
    cmd.kind # "analog_animation" /\ NormalizeElement(cmd.name) = "none"

\* The argument is a pair of numbers separated by a comma
IsPair(arg) ==
    \E i \in 1..Len(arg) :
        /\ arg[i] = ","
        /\ IsFloat(SubSeq(arg, 1, i - 1))
        /\ IsFloat(SubSeq(arg, i + 1, Len(arg)))

\* The numeric argument of the command is no number (no pair of numbers)
MalformedNumber(cmd) ==
    \/ cmd.kind \in {"scale", "rotate"} /\ ~IsFloat(cmd.arg)
    \/ /\ cmd.kind = "pivot"
       /\ cmd.arg \notin {<<"center">>, <<"bottom">>}
       /\ ~IsPair(cmd.arg)

\* C27: for every console command whose element name is not a known element
\* or alias, or whose numeric argument is malformed, executing it calls no
\* core setter: the step only returns a message, raises nothing, and leaves
\* the drag flags, the resize mode, the scales, the rotations, the pivots and
\* the offsets as they are.
C27_BadCommandRejected ==
    [][(ev'.op \in ConsoleOps /\ steps' # steps
          /\ (UnknownElement(ui.console) \/ MalformedNumber(ui.console))) =>
             /\ ev'.op = "execute" /\ ev'.io # "none"
             /\ raised' = "none"
             /\ UNCHANGED <<drag_drop, resize_mode_element, element_scale_override,
                            element_rotation_override, hand_pivots,
                            element_offsets>>]_vars

\* C28: in every reachable state every Ratio pivot stored for an element has
\* both components within [0, 1].
C28_RatioPivotInUnitSquare ==
    \A e \in Elements :
        hand_pivots[e].kind = "ratio" =>
           /\ 0 <= hand_pivots[e].xr[1] /\ hand_pivots[e].xr[1] <= hand_pivots[e].xr[2]
           /\ 0 <= hand_pivots[e].yr[1] /\ hand_pivots[e].yr[1] <= hand_pivots[e].yr[2]

\* C30: the direct setters are independent of the drag and resize state
\* machines.  A step of set_element_scale, set_element_rotation or
\* set_hand_pivot changes only its own entry for the element named, a step of
\* set_resize_mode changes only the resize-mode element, and a step of
\* set_drag_drop(e, True) changes only e's drag flag: the entries of the other
\* elements, the other dictionaries, the offsets, the drag target and its
\* start, the canvas and the geometry file stay as they are.
C30_SettersIndependent ==
    [][steps' # steps =>
          /\ ev'.op = "set_element_scale" =>
                /\ \A j \in Elements \ {ev'.elem} :
                      element_scale_override'[j] = element_scale_override[j]
                /\ UNCHANGED <<element_rotation_override, hand_pivots, drag_drop,
                               resize_mode_element, element_offsets, drag_target,
                               drag_start, canvas_items, pivots_file>>
          /\ ev'.op = "set_element_rotation" =>
                /\ \A j \in Elements \ {ev'.elem} :
                      element_rotation_override'[j] = element_rotation_override[j]
                /\ UNCHANGED <<element_scale_override, hand_pivots, drag_drop,
                               resize_mode_element, element_offsets, drag_target,
                               drag_start, canvas_items, pivots_file>>
          /\ ev'.op = "set_hand_pivot" =>
                /\ \A j \in Elements \ {ev'.elem} : hand_pivots'[j] = hand_pivots[j]
                /\ UNCHANGED <<element_scale_override, element_rotation_override,
                               drag_drop, resize_mode_element, element_offsets,
                               drag_target, drag_start, canvas_items, pivots_file>>
          /\ ev'.op = "set_resize_mode" =>
                UNCHANGED <<element_scale_override, element_rotation_override,
                            hand_pivots, drag_drop, element_offsets, drag_target,
                            drag_start, canvas_items, pivots_file>>
          /\ (ev'.op = "set_drag_drop" /\ ev'.on) =>
                /\ drag_drop' = [drag_drop EXCEPT ![ev'.elem] = TRUE]
                /\ UNCHANGED <<element_scale_override, element_rotation_override,
                               hand_pivots, resize_mode_element, element_offsets,
                               drag_target, drag_start, canvas_items,
                               pivots_file>>]_vars

\* A scale was set for an element other than the one being dragged and the
\* one in resize mode, while a drag is in progress and resize mode is on
C30_Witness ==
    /\ ev.op = "set_element_scale"
    /\ element_scale_override[ev.elem] # DefaultScales[ev.elem]
    /\ drag_target \notin {"none", ev.elem}
    /\ resize_mode_element \notin {"none", ev.elem}

(***************************************************************************)
(* The worker threads: the update check of check_for_updates_async and the *)
(* translation of Options._on_language_changed.  A worker step is one      *)
(* statement of the thread that other threads can observe; the callbacks   *)
(* posted with after(0, ...) wait in after_queue until the UI thread runs  *)
(* them.                                                                   *)
(***************************************************************************)
\* The callbacks posted by the workers
ProgressCallback(pct) == [kind |-> "progress", pct |-> pct, result |-> "none"]
TranslateDone == [kind |-> "translate_done", pct |-> 0, result |-> "none"]
UpdateCheckResult(result) == [kind |-> "update_result", pct |-> 0, result |-> result]

\* The first thread slot that is free (0: none)
FreeWorker ==
    IF \E w \in 1..MaxWorkers : workers[w] = NoWorker
    THEN CHOOSE w \in 1..MaxWorkers :
            workers[w] = NoWorker /\ \A v \in 1..(w - 1) : workers[v] # NoWorker
    ELSE 0

\* What the UI thread leaves as it is when it only starts a thread or closes
\* a dialog
AppStepFrame ==
    /\ UNCHANGED now /\ FilesUnchanged /\ ClockUnchanged
    /\ raised' = "none"
    /\ steps' = steps + 1

\* check_for_updates_async(): the UI thread starts the thread _run.  One
\* check is in flight at a time.
CheckForUpdatesAsync ==
    /\ app_phase = "running" /\ FreeWorker # 0
    /\ ui.dialog = "none"
    /\ \A w \in 1..MaxWorkers : workers[w].kind # "update"
    /\ \A i \in 1..Len(after_queue) : after_queue[i].kind # "update_result"
    /\ workers' = [workers EXCEPT ![FreeWorker] =
                      [kind |-> "update", left |-> 0, total |-> 0]]
    /\ UNCHANGED <<after_queue, ui>>
    /\ AppStepFrame
    /\ ev' = Event("check_for_updates_async", "none", FALSE, "none")

\* Options._save_option("D.app_language") -> _on_language_changed(): the
\* loading screen replaces the options at 0 percent and the thread _worker
\* starts; en.json holds total texts
OnLanguageChanged(total) ==
    /\ app_phase = "running" /\ FreeWorker # 0
    /\ ui.menu = "options" /\ ui.dialog = "none"
    /\ workers' = [workers EXCEPT ![FreeWorker] =
                      [kind |-> "translate", left |-> total, total |-> total]]
    /\ ui' = [ui EXCEPT !.menu = "loading", !.progress = 0]
    /\ UNCHANGED after_queue
    /\ AppStepFrame
    /\ ev' = Event("on_language_changed", "none", FALSE, "none")

\* The bar of the loading screen after _on_progress, the worker setting it
ProgressSetByWorker(pct, old) == pct

\* The bar of the loading screen after _on_progress ran in the worker: the
\* report is posted, the bar is as before
ProgressAfterReport(pct, old) == old

\* One step of the thread w.  The update check posts its result and ends.
\* The translation posts a progress report after every text, then posts its
\* completion and ends; it ends at once, posting nothing, when run() calls
\* sys.exit (exits = TRUE: en.json or deep-translator is missing).
WorkerStep(w, result, exits) ==
    LET wk == workers[w]
        pct == IF wk.total = 0 THEN 0
               ELSE (100 * (wk.total - wk.left + 1)) \div wk.total
        reports == wk.kind = "translate" /\ wk.left > 0 /\ ~exits
    IN  /\ wk.kind # "none"
        /\ wk.kind = "update" => (~exits /\ result # "none")
        /\ wk.kind = "translate" => result = "none"
        /\ exits => wk.left = wk.total
        /\ workers' = [workers EXCEPT ![w] =
                          IF reports THEN [wk EXCEPT !.left = wk.left - 1]
                          ELSE NoWorker]
        /\ after_queue' =
              IF exits THEN after_queue
              ELSE IF wk.kind = "update"
              THEN Append(after_queue, UpdateCheckResult(result))
              ELSE IF reports THEN Append(after_queue, ProgressCallback(pct))
              ELSE Append(after_queue, TranslateDone)
        /\ ui' = [ui EXCEPT !.progress =
                     IF reports THEN ProgressAfterReport(pct, ui.progress)
                     ELSE ui.progress]
        /\ AppStepFrame
        /\ ev' = Event("worker_step", wk.kind, exits, "none")

\* The UI thread runs the callback at the head of the queue:
\* loading.set_progress(p); or Options._on_translate_done (the loading screen
\* goes, ClockApp.refresh_translations redraws the analog clock, the options
\* are shown); or ClockApp._on_update_check_result (a message box for an error
\* or an update)
RunCallback ==
    /\ after_queue # <<>>
    /\ LET c == Head(after_queue)
           done == c.kind = "translate_done"
       IN  /\ after_queue' = Tail(after_queue)
           /\ UNCHANGED workers
           /\ ui' = CASE c.kind = "progress" ->
                            [ui EXCEPT !.progress = Min2(100, Max2(0, c.pct))]
                      [] done -> SwitchMenuTo(ui, "options")
                      [] OTHER ->
                            [ui EXCEPT !.dialog =
                                CASE c.result = "error" -> "showwarning"
                                  [] c.result = "update" -> "askyesno"
                                  [] OTHER -> ui.dialog]
           /\ UNCHANGED now /\ FilesUnchanged /\ ConfigUnchanged
           /\ UNCHANGED <<pivots_file, canvas_size, last_canvas_size, drag_drop,
                          element_offsets, element_scale_override,
                          element_rotation_override, hand_pivots, drag_target,
                          drag_start, drag_origin>>
           /\ RedrawsItems(done /\ ~use_digital /\ has_canvas, TRUE)
           /\ raised' = "none"
           /\ ev' = Valued(Event("run_callback", c.kind, FALSE, "none"), c.pct)
           /\ steps' = steps + 1

\* The user answers the message box
CloseDialog ==
    /\ ui.dialog # "none"
    /\ ui' = [ui EXCEPT !.dialog = "none"]
    /\ UNCHANGED <<workers, after_queue>>
    /\ AppStepFrame
    /\ ev' = Event("close_dialog", "none", FALSE, "none")

(***************************************************************************)
(* SpecWorker: an update check and translations running beside the UI      *)
(* thread, in every interleaving                                           *)
(***************************************************************************)
\* The texts of en.json
MaxTexts == 2
MaxWorkerSteps == 9

InitWorker ==
    \E cfg \in {Config(TRUE, "Analog", FALSE), Config(FALSE, "Digital", FALSE)} :
        ClockRunningOn(cfg, MissingFile, Midnight, NoPivots, DefaultRotations,
                       NoOffsets, Midnight, AllZones, "options")

NextWorker ==
    \/ steps < MaxWorkerSteps /\ CheckForUpdatesAsync
    \/ \E total \in {0, MaxTexts} : steps < MaxWorkerSteps /\ OnLanguageChanged(total)
    \/ \E w \in 1..MaxWorkers, result \in {"none", "error", "update", "up_to_date"},
          exits \in BOOLEAN :
          steps < MaxWorkerSteps /\ WorkerStep(w, result, exits)
    \/ steps < MaxWorkerSteps /\ RunCallback
    \/ steps < MaxWorkerSteps /\ CloseDialog

SpecWorker == InitWorker /\ [][NextWorker]_vars

\* C29: worker threads never change UI state themselves.  A step of a worker
\* leaves the widgets of ClockApp and the Clock as they are and at most posts
\* one callback at the end of the queue; the loading bar, the view shown and
\* the dialogs change only in steps of the UI thread, and a result or a
\* progress report takes effect in the step in which the UI thread runs its
\* callback, which takes exactly that one callback from the head of the queue.
C29_WorkersOnlyPost ==
    [][steps' # steps =>
          /\ ev'.op = "worker_step" =>
                /\ ui' = ui
                /\ UNCHANGED <<canvas_items, hand_angles, item_image, photo_refs,
                               use_digital, has_canvas, has_label,
                               analog_animation_enabled>>
                /\ \/ after_queue' = after_queue
                   \/ /\ Len(after_queue') = Len(after_queue) + 1
                      /\ SubSeq(after_queue', 1, Len(after_queue)) = after_queue
          /\ ui' # ui =>
                ev'.op \in {"run_callback", "on_language_changed", "close_dialog"}
          /\ ev'.op = "run_callback" =>
                /\ after_queue # <<>> /\ after_queue' = Tail(after_queue)
                /\ ev'.elem = Head(after_queue).kind
                /\ Head(after_queue).kind = "progress" =>
                      ui' = [ui EXCEPT !.progress = Head(after_queue).pct]
                /\ Head(after_queue).kind # "progress" => ui'.progress = ui.progress
          /\ ev'.op # "run_callback" =>
                \A i \in 1..Len(after_queue) :
                    i <= Len(after_queue') /\ after_queue'[i] = after_queue[i]]_vars

\* The UI thread ran the callback of the first progress report while the
\* translation went on, the update check had posted its result behind it and
\* the later report of the translation waits in the queue
C29_Witness ==
    /\ ev.op = "run_callback" /\ ev.elem = "progress" /\ ui.progress \in 1..99
    /\ \E w \in 1..MaxWorkers : workers[w].kind = "translate"
    /\ Len(after_queue) >= 2
    /\ after_queue[1].kind = "update_result"

(***************************************************************************)
(* SpecTranslate: language changes and update checks with threads that     *)
(* keep running and a UI thread that keeps running the callbacks posted.   *)
(* The user starts something new a bounded number of times.                *)
(***************************************************************************)
MaxTranslateSteps == 4

NextTranslate ==
    \/ steps < MaxTranslateSteps /\ CheckForUpdatesAsync
    \/ \E total \in {0, MaxTexts} :
          steps < MaxTranslateSteps /\ OnLanguageChanged(total)
    \/ \E w \in 1..MaxWorkers, result \in {"none", "error", "update", "up_to_date"},
          exits \in BOOLEAN :
          WorkerStep(w, result, exits)
    \/ RunCallback
    \/ CloseDialog
    \/ \E t \in ShowTimes : Tick(t)

\* Every thread started goes on until it ends, and the event loop of the UI
\* thread runs every callback posted
SpecTranslate ==
    /\ InitWorker /\ [][NextTranslate]_vars
    /\ WF_vars(\E w \in 1..MaxWorkers,
                  result \in {"none", "error", "update", "up_to_date"},
                  exits \in BOOLEAN : WorkerStep(w, result, exits))
    /\ WF_vars(RunCallback)

\* C37: after a language change started the translation worker and showed
\* the loading screen, the completion callback eventually runs on the UI
\* thread and the options menu is shown again, whatever the outcome of the
\* worker (the target is English, the translation succeeds, the translator
\* library is missing, the source file is missing or unreadable).
C37_TranslationCompletes ==
    (ev.op = "on_language_changed" /\ ui.menu = "loading")
        ~> (ev.op = "run_callback" /\ ev.elem = "translate_done"
            /\ ui.menu = "options")

(***************************************************************************)
(* SpecMenu: switch_menu called with any name while the application runs,  *)
(* from every view and from the loading screen of a translation            *)
(***************************************************************************)
MenuNames == ValidMenus \cup {"settings", ""}
MaxMenuSteps == 4

InitMenu ==
    \E cfg \in InitialConfigs, menu \in ValidMenus :
        ClockRunningOn(cfg, MissingFile, Midnight, NoPivots, DefaultRotations,
                       NoOffsets, Midnight, AllZones, menu)

NextMenu ==
    \/ \E menu \in MenuNames : steps < MaxMenuSteps /\ SwitchMenuCall(menu)
    \/ steps < MaxMenuSteps /\ RefreshOnShow
    \/ steps < MaxMenuSteps /\ OnLanguageChanged(0)
    \/ \E w \in 1..MaxWorkers : steps < MaxMenuSteps /\ WorkerStep(w, "none", FALSE)
    \/ steps < MaxMenuSteps /\ RunCallback

SpecMenu == InitMenu /\ [][NextMenu]_vars

\* C38: switch_menu with a name other than main, options or clock raises
\* ValueError and leaves the view displayed and current_menu as they were
\* before the call; with a valid name, afterwards exactly that view is
\* displayed and current_menu is the name.
C38_SwitchMenuChecked ==
    [][ev'.op = "switch_menu" =>
          IF ev'.elem \in {"main", "options", "clock"}
          THEN /\ raised' = "none"
               /\ ui'.menu = ev'.elem /\ ui'.current_menu = ev'.elem
          ELSE /\ raised' = "ValueError"
               /\ ui'.menu = ui.menu /\ ui'.current_menu = ui.current_menu]_vars

(***************************************************************************)
(* The console panel: toggle_console and Escape                            *)
(***************************************************************************)
\* ClockApp.console is set by _setup_console, which _switch_to_main calls
\* after its switch_menu("main")
ConsoleExists == ui.current_menu # "loading"

\* toggle_console(): nothing happens while ClockApp.console is None
ToggleConsole ==
    /\ Running /\ ui.dialog = "none"
    /\ ui' = IF ConsoleExists THEN [ui EXCEPT !.panel = PanelAfterToggle(ui.panel)]
             ELSE ui
    /\ UNCHANGED <<workers, after_queue>>
    /\ UNCHANGED now /\ FilesUnchanged /\ ClockUnchanged
    /\ raised' = "none"
    /\ ev' = Event("toggle_console", "none", ConsoleExists, "none")
    /\ steps' = steps + 1

\* <Escape> in the entry of the console
OnEscape ==
    /\ Running /\ ui.dialog = "none" /\ ConsoleExists
    /\ ui' = [ui EXCEPT !.panel = PanelAfterEscape(ui.panel)]
    /\ UNCHANGED <<workers, after_queue>>
    /\ UNCHANGED now /\ FilesUnchanged /\ ClockUnchanged
    /\ raised' = "none"
    /\ ev' = Event("escape", "none", FALSE, "none")
    /\ steps' = steps + 1

(***************************************************************************)
(* SpecPanel: the console toggled and escaped in every order, before and   *)
(* after the console exists, in every view                                 *)
(***************************************************************************)
MaxPanelSteps == 6

InitPanel ==
    \E cfg \in InitialConfigs :
        \/ AppStarted(cfg, MissingFile, TRUE, AllAssets, Midnight)
        \/ ClockRunningOn(cfg, MissingFile, Midnight, NoPivots, DefaultRotations,
                          NoOffsets, Midnight, AllZones, "main")

NextPanel ==
    \/ steps < MaxPanelSteps /\ LoadStep3
    \/ \E menu \in ValidMenus : steps < MaxPanelSteps /\ SwitchMenu(menu)
    \/ steps < MaxPanelSteps /\ RefreshOnShow
    \/ steps < MaxPanelSteps /\ ToggleConsole
    \/ steps < MaxPanelSteps /\ OnEscape

SpecPanel == InitPanel /\ [][NextPanel]_vars

\* The state of the console: closed, collapsed (the entry only) or expanded
PanelMode(pn) ==
    IF ~pn.visible THEN "closed" ELSE IF pn.expanded THEN "expanded" ELSE "collapsed"

\* What the window shows of the console
PanelShown(pn) ==
    [mode |-> PanelMode(pn), gridded |-> pn.gridded,
     output |-> pn.gridded /\ pn.output, weight |-> pn.weight]

\* C39: the console toggle cycles closed -> collapsed -> expanded -> closed:
\* three toggle_console calls in a row return the console to the state it
\* started from; and in every reachable state, also after Escape (expanded
\* -> collapsed, collapsed -> closed), an expanded console is visible.
C39_ToggleCycles ==
    /\ [](/\ ui.panel.expanded => ui.panel.visible
          /\ PanelShown(PanelAfterToggle(PanelAfterToggle(PanelAfterToggle(ui.panel))))
                = PanelShown(ui.panel))
    /\ [][/\ (ev'.op = "toggle_console" /\ ev'.on) =>
                PanelMode(ui'.panel) =
                   CASE PanelMode(ui.panel) = "closed" -> "collapsed"
                     [] PanelMode(ui.panel) = "collapsed" -> "expanded"
                     [] PanelMode(ui.panel) = "expanded" -> "closed"
          /\ (ev'.op = "toggle_console" /\ ~ev'.on) => ui'.panel = ui.panel
          /\ ev'.op = "escape" =>
                PanelMode(ui'.panel) =
                   (IF PanelMode(ui.panel) = "expanded" THEN "collapsed" ELSE "closed")]_vars

\* C39 witness: the console, closed by Escape from its collapsed state, was
\* toggled three times: it is closed again, and nothing of it is shown
C39_Witness ==
    /\ ev.op = "toggle_console" /\ ev.on /\ steps >= 5
    /\ PanelMode(ui.panel) = "closed"
    /\ ~ui.panel.gridded /\ ui.panel.weight = 0

====
